---- MODULE Spec2Model ----
(***************************************************************************)
(* RuaFlashTool: the payload unpack worker and its cancellation fabric,    *)
(* the SIGINT handler and the interactive loop, Flasher::flash_partition   *)
(* and the AVB hash-footer signer.                                         *)
(***************************************************************************)
EXTENDS Integers, Sequences, FiniteSets, TLC

(* ------------------------------ bounds -------------------------------- *)
MaxParts == 2
MaxOps == 2
MaxSigints == 2
MaxCmds == 2
MaxCpus == 2

(* --------------------------- program state ---------------------------- *)
VARIABLES
  build,        \* which binary runs: "workspace" (crates/rua_cli) or "legacy" (src/main.rs)
  INTERRUPTED,  \* the process-wide AtomicBool
  exitCode,     \* -1 while the process runs, else its exit code
  mainPc,       \* run_interactive_loop: "readline" | "running" | "exited"
  sigints,      \* SIGINTs delivered to the process so far
  cmds,         \* command lines read so far
  lastSig,      \* what the last SIGINT found: "none" | "clear" | "set"
  answered,     \* history: what the confirm prompt of unpack_payload read
  summary,      \* PayloadSummary.partitions of the payload being unpacked
  mode,         \* "none" | "all" (unpack_payload) | "single" (extract_single_partition)
  target,       \* partition name asked of extract_single_partition
  wpc,          \* worker position: "idle" | "list" | "check" | "extract" | "done"
  idx,          \* index of the partition the for loop is at
  epc,          \* extractor position inside a partition: "start" | "ops" | "end"
  opsDone,      \* operations the extractor has applied in this partition
  warned,       \* the extractor already raised a warning for the next operation
  log,          \* the reporter calls made so far, in order
  outDir,       \* extracted_payload exists
  files,        \* state of <name>.img in the output directory
  result,       \* the value the unpack call returned
  tasks,        \* legacy: state of the task spawned for each partition
  permits,      \* legacy: free permits of the semaphore
  finished,     \* legacy: tasks the wait loop has joined
  cancelPart,   \* history: partition being extracted when the flag was set
  cancelNext,   \* history: the extractor event that was due next at that time
  postProgress, \* history: InProgress events of cancelPart delivered since
  seenPart,     \* history: partition at which should_cancel() first returned true
  seenSite,     \* history: where it did: "loop" or the event kind
  fpc,          \* flash_partition: "idle" | "waiting" | "returned"
  debug,        \* FastbootClient.debug
  fcalls,       \* flash_partition calls made so far
  fpart,        \* partition argument of the current call
  scratch,      \* state of <partition>_temp_boot.img on disk
  fbLog,        \* the fastboot invocations made so far (their arguments)
  callStart,    \* history: Len(fbLog) when the current call began
  fexit,        \* history: how the fastboot run of the current call ended
  fresult,      \* the value flash_partition returned
  apc,          \* signing: "idle" | "done"
  acalls,       \* signing calls made so far
  aIn,          \* the arguments of the current signing call
  aRes,         \* what the current signing call returned
  aVb,          \* vbmeta_size of the current call, -1 if never computed
  aCreated,     \* history: the current call reached File::create
  signedFile,   \* <stem>.signed.img on disk
  pfn,          \* library function applied: "none" or its name
  parg,         \* the argument it was applied to
  pret,         \* what it returned
  bpc,          \* ramdisk patching: "idle", "patched", "repatched"
  bImage,       \* the boot image the last patch operation read
  bOp,          \* the last patch operation and its arguments
  bRes,         \* its result
  bWrote,       \* the patched image it wrote, or NoImage
  bFile,        \* whether that file was on disk when it returned
  bFastboot,    \* fastboot invocations it made
  rpc,          \* root workflow: "menu", "sign", "confirm"
  rflow,        \* the root workflow that is running
  rdisk,        \* the image files in the working directory
  rfinal,       \* final_image_path
  rlast,        \* how the last workflow ended
  kpc,          \* kernel patching: "idle" | "returned"
  kOp,          \* the kernel operation called, its arguments and environment
  kRes,         \* what it returned
  kWrote,       \* the output image it wrote, or NoImage
  kDisk,        \* the files it left in the working directory
  kFastboot     \* fastboot invocations it made

cliVars == <<build, INTERRUPTED, exitCode, mainPc, sigints, cmds, lastSig,
             answered>>
workVars == <<summary, mode, target, wpc, idx, epc, opsDone, warned, log,
              outDir, files, result, tasks, permits, finished>>
histVars == <<cancelPart, cancelNext, postProgress, seenPart, seenSite>>
payloadVars == <<cliVars, workVars, histVars>>
flashVars == <<fpc, debug, fcalls, fpart, scratch, fbLog, callStart, fexit, fresult>>
avbVars == <<apc, acalls, aIn, aRes, aVb, aCreated, signedFile>>
pureVars == <<pfn, parg, pret>>
patchVars == <<bpc, bImage, bOp, bRes, bWrote, bFile, bFastboot>>
rootVars == <<rpc, rflow, rdisk, rfinal, rlast>>
kernelVars == <<kpc, kOp, kRes, kWrote, kDisk, kFastboot>>
vars == <<payloadVars, flashVars, avbVars, pureVars, patchVars, rootVars,
          kernelVars>>

\* each component's actions leave the other components alone
PayloadOnly ==
  UNCHANGED <<flashVars, avbVars, pureVars, patchVars, rootVars, kernelVars>>
FlashOnly ==
  UNCHANGED <<payloadVars, avbVars, pureVars, patchVars, rootVars, kernelVars>>
AvbOnly ==
  UNCHANGED <<payloadVars, flashVars, pureVars, patchVars, rootVars, kernelVars>>
PureOnly ==
  UNCHANGED <<payloadVars, flashVars, avbVars, patchVars, rootVars, kernelVars>>
RootOnly ==
  UNCHANGED <<payloadVars, flashVars, avbVars, pureVars, patchVars, kernelVars>>
PatchOnly ==
  UNCHANGED <<payloadVars, flashVars, avbVars, pureVars, rootVars, kernelVars>>
KernelOnly ==
  UNCHANGED <<payloadVars, flashVars, avbVars, pureVars, patchVars, rootVars>>

(* ------------------------------ inputs -------------------------------- *)
Names == <<"boot", "vbmeta", "system", "vendor", "init_boot">>
NameSet == {Names[i] : i \in 1..Len(Names)}
Missing == "dtbo"
SizeOf(i) == IF i % 2 = 0 THEN 0 ELSE 7 * i

Partition(i, ops) ==
  [name |-> Names[i], size_bytes |-> SizeOf(i), operations_count |-> ops]

Manifests ==
  UNION {{[i \in 1..n |-> Partition(i, f[i])] : f \in [1..n -> 0..MaxOps]}
         : n \in 0..MaxParts}

NoResult == [tag |-> "none", variant |-> "", msg |-> ""]
OkResult == [tag |-> "Ok", variant |-> "", msg |-> ""]
\* payload.rs returns anyhow::Result: every error is an anyhow::Error
AnyhowErr(m) == [tag |-> "Err", variant |-> "anyhow", msg |-> m]

NoFiles == [n \in NameSet \cup {Missing} |-> "none"]

(* --------------------------- the reporter ----------------------------- *)
should_cancel == INTERRUPTED

Call(ev, name, cur, total) == [ev |-> ev, name |-> name, cur |-> cur, total |-> total]

Min(a, b) == IF a < b THEN a ELSE b

current_bytes(cur, total_ops, total_bytes) ==
  IF total_ops > 0 THEN (Min(cur, total_ops) * total_bytes) \div total_ops ELSE 0

CallbackCall_unforwarded(status, p, cur) ==
  CASE status = "Started" -> Call("on_start", p.name, 0, p.size_bytes)
    [] status = "InProgress" ->
         Call("on_progress", p.name,
              current_bytes(cur, p.operations_count, p.size_bytes), p.size_bytes)
    [] status = "Completed" -> Call("on_complete", p.name, 0, p.size_bytes)
    [] OTHER -> Call("on_progress", p.name, 0, p.size_bytes)
\* what the progress callback tells the reporter for one extractor event
CallbackCall(status, p, cur) ==
  CASE status = "Started" -> Call("on_start", p.name, 0, p.size_bytes)
    [] status = "InProgress" ->
         Call("on_progress", p.name,
              current_bytes(cur, p.operations_count, p.size_bytes), p.size_bytes)
    [] status = "Completed" -> Call("on_complete", p.name, 0, p.size_bytes)
    [] OTHER -> Call("on_warning", p.name, cur, 0)

CallbackRet_always == TRUE
\* the callback's return value: continue unless cancellation was requested
CallbackRet == ~should_cancel

LoopCancel_never == FALSE
\* the poll at the head of the for loop / before the single extraction
LoopCancel == should_cancel

NextIdx_skip(i) == i + 2
NextIdx(i) == i + 1


(* ------------------------- derived positions -------------------------- *)
Cur == summary[idx]

\* the extractor event that is due next while a partition is being extracted
NextEvent ==
  IF epc = "start" THEN "Started"
  ELSE IF opsDone < Cur.operations_count THEN "InProgress" ELSE "Completed"

Alive == exitCode = -1

IndexOf(name) ==
  IF \E i \in 1..Len(summary) : summary[i].name = name
  THEN CHOOSE i \in 1..Len(summary) :
         /\ summary[i].name = name
         /\ \A j \in 1..(i - 1) : summary[j].name # name
  ELSE 0

(* --------------------------- initial state ---------------------------- *)
InitCli ==
  /\ INTERRUPTED = FALSE
  /\ exitCode = -1
  /\ mainPc = "readline"
  /\ sigints = 0
  /\ cmds = 0
  /\ lastSig = "none"
  /\ answered = "none"

InitWork ==
  /\ summary = <<>>
  /\ mode = "none"
  /\ target = ""
  /\ wpc = "idle"
  /\ idx = 0
  /\ epc = "start"
  /\ opsDone = 0
  /\ warned = FALSE
  /\ log = <<>>
  /\ outDir = FALSE
  /\ files = NoFiles
  /\ result = NoResult
  /\ tasks = <<>>
  /\ permits = 0
  /\ finished = 0

InitHist ==
  /\ cancelPart = 0
  /\ cancelNext = "none"
  /\ postProgress = 0
  /\ seenPart = 0
  /\ seenSite = "none"

(* ------------------------- the SIGINT handler ------------------------- *)
HandlerExits_never == FALSE
\* main.rs 190: a handler run that finds the flag already set exits
HandlerExits == INTERRUPTED

ForcedExitCode == 130

SigintHandler ==
  /\ Alive
  /\ PayloadOnly
  /\ sigints < MaxSigints
  /\ sigints' = sigints + 1
  /\ lastSig' = IF INTERRUPTED THEN "set" ELSE "clear"
  /\ IF HandlerExits
       THEN /\ exitCode' = ForcedExitCode
            /\ mainPc' = "exited"
            /\ UNCHANGED INTERRUPTED
       ELSE /\ INTERRUPTED' = TRUE
            /\ UNCHANGED <<exitCode, mainPc>>
  /\ IF ~INTERRUPTED /\ wpc = "extract"
       THEN /\ cancelPart' = idx
            /\ cancelNext' = NextEvent
            /\ postProgress' = 0
       ELSE UNCHANGED <<cancelPart, cancelNext, postProgress>>
  /\ UNCHANGED <<build, cmds, answered, workVars, seenPart, seenSite>>


(* ------------------------ run_interactive_loop ------------------------ *)
Commands == {"", "0", "2", "11"}
DirOutcomes == {"ok", "remove failed", "create failed"}

ResetHist ==
  /\ cancelPart' = 0
  /\ cancelNext' = "none"
  /\ postProgress' = 0
  /\ seenPart' = 0
  /\ seenSite' = "none"

\* a worker is handed the payload the user picked
StartWorker(m, md, tg) ==
  /\ summary' = m
  /\ mode' = md
  /\ target' = tg
  /\ wpc' = "list"
  /\ idx' = 0
  /\ epc' = "start"
  /\ opsDone' = 0
  /\ warned' = FALSE
  /\ log' = <<>>
  /\ result' = NoResult
  /\ tasks' = <<>>
  /\ permits' = 0
  /\ finished' = 0
  /\ mainPc' = "running"
  /\ ResetHist

ClearFlag_keep == INTERRUPTED
\* main.rs 213: the flag is cleared whenever a line is read
ClearFlag == FALSE

\* ui.rs 35-52: the line read at a [Y/n] prompt; READ_ERR stands for
\* readline returning Err (Ctrl+C, Ctrl+D or an I/O error)
READ_ERR == "Err"
Answers == {"y", "", "n", READ_ERR}
confirm(line, default_yes) ==
  IF line = READ_ERR THEN default_yes
  ELSE IF line = "" THEN default_yes
  ELSE line = "y"

\* main.rs 404-423: the work directory is asked about, removed and made
\* again before the extraction starts
UnpackPrompt(line, io, m) ==
  /\ answered' = IF outDir THEN line ELSE "none"
  /\ IF outDir /\ ~confirm(line, TRUE)
       THEN UNCHANGED <<exitCode, mainPc, workVars, histVars>>
     ELSE IF outDir /\ io = "remove failed"
       THEN UNCHANGED <<exitCode, mainPc, workVars, histVars>>
     ELSE IF io = "create failed"
       THEN /\ outDir' = FALSE
            /\ files' = NoFiles
            /\ UNCHANGED <<exitCode, mainPc, summary, mode, target, wpc, idx,
                           epc, opsDone, warned, log, result, tasks, permits,
                           finished, histVars>>
     ELSE /\ outDir' = TRUE
          /\ files' = NoFiles
          /\ StartWorker(m, "all", "")
          /\ UNCHANGED exitCode

\* readline returned Ok(line)
ReadLine(input) ==
  /\ Alive
  /\ PayloadOnly
  /\ mainPc = "readline"
  /\ cmds < MaxCmds
  /\ cmds' = cmds + 1
  /\ INTERRUPTED' = ClearFlag
  /\ UNCHANGED <<build, sigints, lastSig>>
  /\ CASE input = "" ->
            /\ answered' = "none"
            /\ UNCHANGED <<exitCode, mainPc, workVars, histVars>>
       [] input = "0" ->
            /\ exitCode' = 0
            /\ mainPc' = "exited"
            /\ answered' = "none"
            /\ UNCHANGED <<workVars, histVars>>
       [] input = "2" /\ build = "workspace" ->
            \E line \in Answers, io \in DirOutcomes, m \in Manifests :
              UnpackPrompt(line, io, m)
       [] input = "2" /\ build = "legacy" ->
            \E m \in Manifests :
              /\ StartWorker(m, "legacy", "")
              /\ answered' = "none"
              /\ UNCHANGED <<exitCode, outDir, files>>
       [] input = "11" /\ build = "workspace" ->
            \* flash_custom_partition, image taken from a payload
            \E m \in Manifests, tg \in {Names[1], Names[2], Missing} :
              /\ outDir' = TRUE
              /\ StartWorker(m, "single", tg)
              /\ answered' = "none"
              /\ UNCHANGED <<exitCode, files>>
       [] OTHER ->
            /\ answered' = "none"
            /\ UNCHANGED <<exitCode, mainPc, workVars, histVars>>

\* readline returned Err(Interrupted) or Err(Eof): the loop breaks
ReadLineBreak ==
  /\ Alive
  /\ PayloadOnly
  /\ mainPc = "readline"
  /\ exitCode' = 0
  /\ mainPc' = "exited"
  /\ UNCHANGED <<build, INTERRUPTED, sigints, cmds, lastSig, answered, workVars,
                 histVars>>

\* the awaited call returned: its locals (reporter, summary, result) are
\* dropped and the loop goes back to the prompt
OperationReturn ==
  /\ Alive
  /\ PayloadOnly
  /\ mainPc = "running"
  /\ wpc = "done"
  /\ mainPc' = "readline"
  /\ wpc' = "idle"
  /\ summary' = <<>>
  /\ mode' = "none"
  /\ target' = ""
  /\ idx' = 0
  /\ epc' = "start"
  /\ opsDone' = 0
  /\ warned' = FALSE
  /\ log' = <<>>
  /\ result' = NoResult
  /\ tasks' = <<>>
  /\ permits' = 0
  /\ finished' = 0
  /\ ResetHist
  /\ answered' = "none"
  /\ UNCHANGED <<build, INTERRUPTED, exitCode, sigints, cmds, lastSig, outDir,
                 files>>

(* ------------- rua_core::payload: the extraction worker --------------- *)
Working == Alive /\ mainPc = "running"

Return(r) ==
  /\ result' = r
  /\ wpc' = "done"

\* history: the first poll of should_cancel() that returned true
Seen(site, part) ==
  IF should_cancel /\ seenPart = 0
    THEN seenPart' = part /\ seenSite' = site
    ELSE UNCHANGED <<seenPart, seenSite>>

\* list_partitions + serde_json::from_str, then (single) the lookup by name
WorkerList ==
  /\ Working
  /\ PayloadOnly
  /\ wpc = "list"
  /\ mode \in {"all", "single"}
  /\ \E parsed \in BOOLEAN :
       IF ~parsed
         THEN /\ Return(AnyhowErr("payload parse error"))
              /\ UNCHANGED <<idx, epc, seenPart, seenSite>>
         ELSE IF mode = "all"
           THEN /\ wpc' = "check"
                /\ idx' = 1
                /\ UNCHANGED <<result, epc, seenPart, seenSite>>
           ELSE IF IndexOf(target) = 0
             THEN /\ Return(AnyhowErr("partition not found in payload"))
                  /\ UNCHANGED <<idx, epc, seenPart, seenSite>>
             ELSE /\ idx' = IndexOf(target)
                  /\ Seen("loop", IndexOf(target))
                  /\ IF LoopCancel
                       THEN /\ Return(AnyhowErr("operation cancelled by user"))
                            /\ UNCHANGED epc
                       ELSE /\ wpc' = "extract"
                            /\ epc' = "start"
                            /\ UNCHANGED result
  /\ UNCHANGED <<cliVars, summary, mode, target, opsDone, warned, log, outDir,
                 files, tasks, permits, finished, cancelPart, cancelNext,
                 postProgress>>

\* unpack_payload: one pass through the head of `for p in summary.partitions`
LoopHead ==
  /\ Working
  /\ PayloadOnly
  /\ wpc = "check"
  /\ IF idx > Len(summary)
       THEN /\ Return(OkResult)
            /\ UNCHANGED <<epc, opsDone, warned, seenPart, seenSite>>
       ELSE /\ Seen("loop", idx)
            /\ IF LoopCancel
                 THEN /\ Return(AnyhowErr("operation cancelled by user"))
                      /\ UNCHANGED <<epc, opsDone, warned>>
                 ELSE /\ wpc' = "extract"
                      /\ epc' = "start"
                      /\ opsDone' = 0
                      /\ warned' = FALSE
                      /\ UNCHANGED result
  /\ UNCHANGED <<cliVars, summary, mode, target, idx, log, outDir, files, tasks,
                 permits, finished, cancelPart, cancelNext, postProgress>>

\* the extractor hands one event to the progress callback
Deliver(status, cur) ==
  /\ log' = Append(log, CallbackCall(status, Cur, cur))
  /\ Seen(status, idx)

\* the extractor stops when the callback returned false
Aborted == Return(AnyhowErr("extraction cancelled"))

EvStarted ==
  /\ Working
  /\ PayloadOnly
  /\ wpc = "extract"
  /\ epc = "start"
  /\ Deliver("Started", 0)
  /\ files' = [files EXCEPT ![Cur.name] = "partial"]
  /\ IF CallbackRet
       THEN epc' = "ops" /\ UNCHANGED <<result, wpc>>
       ELSE Aborted /\ UNCHANGED epc
  /\ UNCHANGED <<cliVars, summary, mode, target, idx, opsDone, warned, outDir,
                 tasks, permits, finished, cancelPart, cancelNext, postProgress>>

EvWarning ==
  /\ Working
  /\ PayloadOnly
  /\ wpc = "extract"
  /\ epc = "ops"
  /\ opsDone < Cur.operations_count
  /\ ~warned
  /\ warned' = TRUE
  /\ Deliver("Warning", opsDone)
  /\ IF CallbackRet
       THEN UNCHANGED <<result, wpc>>
       ELSE Aborted
  /\ UNCHANGED <<cliVars, summary, mode, target, idx, epc, opsDone, outDir,
                 files, tasks, permits, finished, cancelPart, cancelNext,
                 postProgress>>

EvInProgress ==
  /\ Working
  /\ PayloadOnly
  /\ wpc = "extract"
  /\ epc = "ops"
  /\ opsDone < Cur.operations_count
  /\ opsDone' = opsDone + 1
  /\ warned' = FALSE
  /\ Deliver("InProgress", opsDone + 1)
  /\ postProgress' = IF cancelPart = idx THEN postProgress + 1 ELSE postProgress
  /\ IF CallbackRet
       THEN UNCHANGED <<result, wpc>>
       ELSE Aborted
  /\ UNCHANGED <<cliVars, summary, mode, target, idx, epc, outDir, files, tasks,
                 permits, finished, cancelPart, cancelNext>>

EvCompleted ==
  /\ Working
  /\ PayloadOnly
  /\ wpc = "extract"
  /\ epc = "ops"
  /\ opsDone = Cur.operations_count
  /\ Deliver("Completed", opsDone)
  /\ files' = [files EXCEPT ![Cur.name] = "complete"]
  /\ IF mode = "all"
       THEN /\ idx' = NextIdx(idx)
            /\ wpc' = "check"
            /\ UNCHANGED result
       ELSE /\ Return(OkResult)
            /\ UNCHANGED idx
  /\ UNCHANGED <<cliVars, summary, mode, target, epc, opsDone, warned, outDir,
                 tasks, permits, finished, cancelPart, cancelNext, postProgress>>

\* an operation fails to read or write
EvIoError ==
  /\ Working
  /\ PayloadOnly
  /\ wpc = "extract"
  /\ epc = "ops"
  /\ opsDone < Cur.operations_count
  /\ Return(AnyhowErr("io error"))
  /\ UNCHANGED <<cliVars, summary, mode, target, idx, epc, opsDone, warned, log,
                 outDir, files, tasks, permits, finished, histVars>>


(* ---------------- src/payload_utils.rs: unpack_payload ---------------- *)
\* num_cpus::get().min(8)
MaxConcurrency == 8
Concurrency(cpus) == Min(cpus, MaxConcurrency)

\* parse the manifest, then spawn one task per partition into the JoinSet
LegacySpawn ==
  /\ Working
  /\ PayloadOnly
  /\ wpc = "list"
  /\ mode = "legacy"
  /\ \E parsed \in BOOLEAN, cpus \in 1..MaxCpus :
       IF ~parsed
         THEN /\ Return(AnyhowErr("payload parse error"))
              /\ UNCHANGED <<tasks, permits>>
         ELSE /\ tasks' = [i \in 1..Len(summary) |-> [st |-> "spawned"]]
              /\ permits' = Concurrency(cpus)
              /\ wpc' = "wait"
              /\ UNCHANGED result
  /\ UNCHANGED <<cliVars, summary, mode, target, idx, epc, opsDone, warned, log,
                 outDir, files, finished, histVars>>

\* IndicatifReporter keeps one bar per partition: a task's state is the state
\* of its bar, and of its image in extracted_images
LegacyIdle == <<cliVars, summary, mode, target, wpc, idx, epc, opsDone, warned,
                log, outDir, files, result, finished, histVars>>

\* a task gets a permit and dump_partition announces the partition
LTaskStart(i) ==
  /\ Working
  /\ PayloadOnly
  /\ wpc = "wait"
  /\ tasks[i].st = "spawned"
  /\ permits > 0
  /\ permits' = permits - 1
  /\ tasks' = [tasks EXCEPT ![i].st = "running"]
  /\ UNCHANGED LegacyIdle

LTaskComplete(i) ==
  /\ Working
  /\ PayloadOnly
  /\ wpc = "wait"
  /\ tasks[i].st = "running"
  /\ tasks' = [tasks EXCEPT ![i].st = "ok"]
  /\ permits' = permits + 1
  /\ UNCHANGED LegacyIdle

\* dump_partition returns an error; the permit is dropped
LTaskFail(i) ==
  /\ Working
  /\ PayloadOnly
  /\ wpc = "wait"
  /\ tasks[i].st = "running"
  /\ tasks' = [tasks EXCEPT ![i].st = "failed"]
  /\ permits' = permits + 1
  /\ UNCHANGED LegacyIdle

\* the wait loop: join_next yields a finished task
LJoin(i) ==
  /\ Working
  /\ PayloadOnly
  /\ wpc = "wait"
  /\ finished < Len(summary)
  /\ tasks[i].st \in {"ok", "failed"}
  /\ tasks' = [tasks EXCEPT ![i].st = "joined"]
  /\ finished' = finished + 1
  /\ UNCHANGED <<cliVars, summary, mode, target, wpc, idx, epc, opsDone, warned,
                 log, outDir, files, result, permits, histVars>>

\* the wait loop finds the flag set: abort_all and break
LCancel ==
  /\ Working
  /\ PayloadOnly
  /\ wpc = "wait"
  /\ finished < Len(summary)
  /\ INTERRUPTED
  /\ tasks' = [i \in 1..Len(summary) |->
                 IF tasks[i].st \in {"spawned", "running"}
                   THEN [tasks[i] EXCEPT !.st = "aborted"] ELSE tasks[i]]
  /\ Return(OkResult)
  /\ UNCHANGED <<cliVars, summary, mode, target, idx, epc, opsDone, warned, log,
                 outDir, files, permits, finished, histVars>>

\* the wait loop ends: every task was joined
LReturn ==
  /\ Working
  /\ PayloadOnly
  /\ wpc = "wait"
  /\ finished = Len(summary)
  /\ Return(OkResult)
  /\ UNCHANGED <<cliVars, summary, mode, target, idx, epc, opsDone, warned, log,
                 outDir, files, tasks, permits, finished, histVars>>

(* ------------------ Flasher::flash_partition -------------------------- *)
MaxFlashCalls == 2

FlashParts == {"boot", "vbmeta"}
DeviceIds == {"", "SERIAL1"}

InitFlash ==
  /\ fpc = "idle"
  /\ debug = FALSE
  /\ fcalls = 0
  /\ fpart = ""
  /\ scratch = [p \in FlashParts |-> "absent"]
  /\ fbLog = <<>>
  /\ callStart = 0
  /\ fexit = "none"
  /\ fresult = NoResult

FlashErr(v, m) == [tag |-> "Err", variant |-> v, msg |-> m]

\* flasher.rs 472-476
FlashArgs(device_id, partition) ==
  IF device_id = ""
    THEN <<"flash", partition, "temp_boot">>
    ELSE <<"-s", device_id, "flash", partition, "temp_boot">>

Invoke_twice(l, args) == Append(Append(l, args), args)
\* fastboot.rs 77-80: one Command::new(fastboot).args(..).status()
Invoke(l, args) == Append(l, args)

Removed_kept(f) == f
\* flasher.rs 479: remove_file(&temp_boot)
Removed(f) == "absent"

\* std::fs::copy: done, failed before the destination was opened, or failed
\* after the destination was created
CopyOutcomes == {"ok", "err_source", "err_partial"}

\* the call up to the point where the fastboot child runs
FlashBegin(device_id, partition, copy, dbg, launched) ==
  /\ fpc = "idle"
  /\ fcalls < MaxFlashCalls
  /\ fcalls' = fcalls + 1
  /\ fpart' = partition
  /\ debug' = dbg
  /\ callStart' = Len(fbLog)
  /\ CASE copy = "err_source" ->
            /\ fresult' = FlashErr("Io", "copy failed")
            /\ fpc' = "returned"
            /\ fexit' = "none"
            /\ UNCHANGED <<scratch, fbLog>>
       [] copy = "err_partial" ->
            /\ scratch' = [scratch EXCEPT ![partition] = "partial"]
            /\ fresult' = FlashErr("Io", "copy failed")
            /\ fpc' = "returned"
            /\ fexit' = "none"
            /\ UNCHANGED fbLog
       [] copy = "ok" /\ dbg ->
            \* FastbootClient::run in debug mode prints and returns Ok(true)
            /\ scratch' = [scratch EXCEPT ![partition] = Removed("full")]
            /\ fresult' = OkResult
            /\ fpc' = "returned"
            /\ fexit' = "simulated"
            /\ UNCHANGED fbLog
       [] copy = "ok" /\ ~dbg /\ ~launched ->
            \* the child could not be spawned: run returns Err(Io)
            /\ scratch' = [scratch EXCEPT ![partition] = Removed("full")]
            /\ fresult' = FlashErr("Io", "spawn failed")
            /\ fpc' = "returned"
            /\ fexit' = "launch_failed"
            /\ UNCHANGED fbLog
       [] OTHER ->
            /\ scratch' = [scratch EXCEPT ![partition] = "full"]
            /\ fbLog' = Invoke(fbLog, FlashArgs(device_id, partition))
            /\ fpc' = "waiting"
            /\ fexit' = "running"
            /\ fresult' = NoResult
  /\ FlashOnly

\* the fastboot child exited: the scratch file is removed and the status
\* becomes the result
FlashExit(success) ==
  /\ fpc = "waiting"
  /\ scratch' = [scratch EXCEPT ![fpart] = Removed(scratch[fpart])]
  /\ fexit' = IF success THEN "zero" ELSE "nonzero"
  /\ fresult' = IF success THEN OkResult
                ELSE FlashErr("FastbootError", "Failed to flash partition")
  /\ fpc' = "returned"
  /\ FlashOnly
  /\ UNCHANGED <<debug, fcalls, fpart, fbLog, callStart>>

\* the caller goes on
FlashDone ==
  /\ fpc = "returned"
  /\ fpc' = "idle"
  /\ FlashOnly
  /\ UNCHANGED <<debug, fcalls, fpart, scratch, fbLog, callStart, fexit, fresult>>

NextFlash ==
  \/ \E d \in DeviceIds, p \in FlashParts, c \in CopyOutcomes,
        dbg \in BOOLEAN, l \in BOOLEAN : FlashBegin(d, p, c, dbg, l)
  \/ \E ok \in BOOLEAN : FlashExit(ok)
  \/ FlashDone

(* ------------------------ avb::add_hash_footer ------------------------- *)
MaxAvbCalls == 2

FOOTER_SIZE == 64
VBMETA_HEADER_SIZE == 256
AVB_MAGIC == <<65, 86, 66, 48>>
AVB_FOOTER_MAGIC == <<65, 86, 66, 102>>
MiB == 1024 * 1024

align_up(x, a) == ((x + a - 1) \div a) * a

RECURSIVE Shr8(_, _)
Shr8(v, k) == IF k = 0 THEN v ELSE Shr8(v \div 256, k - 1)

\* to_be_bytes of a u32 and of a u64
be32(v) == [i \in 1..4 |-> Shr8(v, 4 - i) % 256]
be64(v) == [i \in 1..8 |-> Shr8(v, 8 - i) % 256]

\* vec![0u8; n] and dst[off..off+len].copy_from_slice(src)
ZeroVec(n) == [i \in 1..n |-> 0]
Patch(v, off, bs) ==
  [i \in 1..Len(v) |-> IF i > off /\ i <= off + Len(bs) THEN bs[i - off] ELSE v[i]]

\* A byte string is a sequence of runs: bytes the code computes are kept,
\* bytes that come from the image, the digests, the key and the signature
\* are kept as a run of known length.
Raw(bs) == [kind |-> "raw", bytes |-> bs, len |-> Len(bs), tag |-> ""]
Run(n, t) == [kind |-> "run", bytes |-> <<>>, len |-> n, tag |-> t]
Zeros(n) == [kind |-> "zeros", bytes |-> <<>>, len |-> n, tag |-> ""]

RECURSIVE BlobLen(_)
BlobLen(b) == IF b = <<>> THEN 0 ELSE Head(b).len + BlobLen(Tail(b))

\* while v.len() % a != 0 { v.push(0) }
PadTo(b, a) ==
  IF BlobLen(b) % a = 0 THEN b ELSE Append(b, Zeros(a - (BlobLen(b) % a)))

\* the arguments: an image file, a partition name, a key file
ImgSizes == {0, 102400, MiB}
Images == {[readable |-> FALSE, size |-> 0]}
            \cup {[readable |-> TRUE, size |-> n] : n \in ImgSizes}
AvbNames == { <<98, 111, 111, 116>>,
              <<105, 110, 105, 116, 95, 98, 111, 111, 116>> }
Keys == {[pem |-> "pkcs1", bits |-> b] : b \in {2048, 4096}}
          \cup {[pem |-> "pkcs8", bits |-> 2048],
                [pem |-> "public", bits |-> 0],
                [pem |-> "garbage", bits |-> 0],
                [pem |-> "missing", bits |-> 0]}
Algorithms == {"SHA256_RSA2048", "SHA256_RSA4096", "SHA512_RSA8192"}
\* partition sizes around the two thresholds of add_hash_footer
SizeDeltas == {-1, 0, 1343, 1344, 2111, 2112}
PartSizes(img) == {img.size + d : d \in SizeDeltas} \cap Nat
IoOutcomes == {"ok", "create_fails", "write_fails"}

NoFile == [exists |-> FALSE, data |-> <<>>]
NoArgs == [via |-> "none"]

InitAvb ==
  /\ apc = "idle"
  /\ acalls = 0
  /\ aIn = NoArgs
  /\ aRes = NoResult
  /\ aVb = -1
  /\ aCreated = FALSE
  /\ signedFile = NoFile

\* avb.rs 28-84: be32(bits), be32(n0inv), the modulus and R^2 mod n, each
\* key_bytes long
build_public_key_blob(key) ==
  LET key_bytes == (key.bits + 7) \div 8
  IN  <<Raw(be32(key.bits)), Run(4, "n0inv"),
        Run(key_bytes, "n"), Run(key_bytes, "rr")>>

\* avb.rs 86-125
build_hash_descriptor(name, img) ==
  LET name_len == Len(name)
      hash_desc_fixed_size == 8 + 32 + 4 + 4 + 4 + 4 + 60
      raw == hash_desc_fixed_size + name_len + 0 + 32
      num_following == IF raw % 8 # 0 THEN raw + (8 - (raw % 8)) ELSE raw
      algo == Patch(ZeroVec(32), 0, <<115, 104, 97, 50, 53, 54>>)
      desc == <<Raw(be64(2) \o be64(num_following) \o be64(img.size)
                    \o algo \o be32(name_len) \o be32(0) \o be32(32)
                    \o be32(0) \o ZeroVec(60) \o name),
                Run(32, "sha256(image)")>>
  IN  PadTo(desc, 8)

\* avb.rs 161-172
AuxBlock(key, name, img) ==
  LET pubkey_blob == build_public_key_blob(key)
  IN  PadTo(PadTo(pubkey_blob, 8) \o build_hash_descriptor(name, img), 64)

\* avb.rs 175-178
AlgoType(algorithm) == IF algorithm = "SHA256_RSA4096" THEN 2 ELSE 1
SigLen(algorithm) == IF algorithm = "SHA256_RSA4096" THEN 512 ELSE 256

\* avb.rs 197-216
Header(key, name, img, algorithm) ==
  LET pubkey_size == BlobLen(build_public_key_blob(key))
      h0 == ZeroVec(VBMETA_HEADER_SIZE)
      h1 == Patch(h0, 0, AVB_MAGIC)
      h2 == Patch(h1, 4, be32(1))
      h3 == Patch(h2, 8, be32(0))
      h4 == Patch(h3, 12, be64(align_up(32 + SigLen(algorithm), 64)))
      h5 == Patch(h4, 20, be64(BlobLen(AuxBlock(key, name, img))))
      h6 == Patch(h5, 28, be32(AlgoType(algorithm)))
      h7 == Patch(h6, 32, be64(0))
      h8 == Patch(h7, 40, be64(32))
      h9 == Patch(h8, 48, be64(32))
      h10 == Patch(h9, 56, be64(SigLen(algorithm)))
      h11 == Patch(h10, 64, be64(0))
      h12 == Patch(h11, 72, be64(pubkey_size))
      h13 == Patch(h12, 80, be64(0))
      h14 == Patch(h13, 88, be64(0))
      h15 == Patch(h14, 96, be64(align_up(pubkey_size, 8)))
      h16 == Patch(h15, 104, be64(BlobLen(build_hash_descriptor(name, img))))
      h17 == Patch(h16, 112, be64(0))
      h18 == Patch(h17, 120, be32(0))
  IN  Patch(h18, 128, <<114, 117, 97, 95, 97, 118, 98, 32, 49, 46, 48, 0>>)

\* avb.rs 231-232: a PKCS#1 v1.5 signature is as long as the modulus
SignatureLen(key) == (key.bits + 7) \div 8

\* avb.rs 239-244
AuthBlock(key) ==
  PadTo(<<Run(32, "sha256(header||aux)"), Run(SignatureLen(key), "signature")>>, 64)

Vbmeta_noheader(header, auth, aux) == auth \o aux
\* avb.rs 246-252
Vbmeta(header, auth, aux) == <<Raw(header)>> \o auth \o aux

TooLarge_nofooter(orig_size, vbmeta_size, partition_size) ==
  orig_size + vbmeta_size > partition_size
\* avb.rs 255-256
TooLarge(orig_size, vbmeta_size, partition_size) ==
  orig_size + vbmeta_size + FOOTER_SIZE > partition_size

\* avb.rs 262-269
Footer(orig_size, vbmeta_size) ==
  LET vbmeta_offset == orig_size
      f0 == ZeroVec(FOOTER_SIZE)
      f1 == Patch(f0, 0, AVB_FOOTER_MAGIC)
      f2 == Patch(f1, 4, be32(1))
      f3 == Patch(f2, 8, be32(0))
      f4 == Patch(f3, 12, be64(orig_size))
      f5 == Patch(f4, 20, be64(vbmeta_offset))
  IN  Patch(f5, 28, be64(vbmeta_size))

PatchError(m) == [tag |-> "Err", variant |-> "PatchError", msg |-> m]

\* what one call does: its result, whether it reached File::create, what it
\* left in the output file, and vbmeta_size once computed
Fails(m, file) ==
  [res |-> PatchError(m), created |-> FALSE, file |-> file, vb |-> -1]

\* avb.rs 253-286: the size check, then the output file
WriteOut(img, vbmeta, vbmeta_size, partition_size_bytes, io, file) ==
  IF TooLarge(img.size, vbmeta_size, partition_size_bytes)
    THEN [res |-> PatchError("signed image would exceed partition size"),
          created |-> FALSE, file |-> file, vb |-> vbmeta_size]
  ELSE IF io = "create_fails"
    THEN [res |-> PatchError("create out failed"),
          created |-> TRUE, file |-> file, vb |-> vbmeta_size]
  ELSE IF io = "write_fails"
    THEN [res |-> PatchError("write image failed"),
          created |-> TRUE,
          file |-> [exists |-> TRUE, data |-> <<>>],
          vb |-> vbmeta_size]
  ELSE [res |-> OkResult,
        created |-> TRUE,
        file |-> [exists |-> TRUE,
                  data |-> (IF img.size = 0 THEN <<>>
                            ELSE <<Run(img.size, "image")>>)
                             \o vbmeta
                             \o <<Raw(Footer(img.size, vbmeta_size))>>],
        vb |-> vbmeta_size]

\* avb.rs 246-286
Assemble(img, vbmeta, partition_size_bytes, io, file) ==
  WriteOut(img, vbmeta, BlobLen(vbmeta), partition_size_bytes, io, file)

\* avb.rs 127-287
add_hash_footer(img, name, partition_size_bytes, key, algorithm, io, file) ==
  IF ~img.readable THEN Fails("read image failed", file)
  ELSE IF img.size > partition_size_bytes
    THEN Fails("image larger than partition size", file)
  ELSE IF key.pem = "missing" THEN Fails("read key failed", file)
  ELSE IF key.pem = "public"
    THEN Fails("invalid key: public key not allowed", file)
  ELSE IF key.pem \notin {"pkcs1", "pkcs8"}
    THEN Fails("parse rsa key failed", file)
  ELSE IF SignatureLen(key) # SigLen(algorithm)
    THEN Fails("signature length mismatch", file)
  ELSE Assemble(img,
                Vbmeta(Header(key, name, img, algorithm), AuthBlock(key),
                       AuxBlock(key, name, img)),
                partition_size_bytes, io, file)

\* main.rs 1210-1215
PartSizeFor(img_len) ==
  LET min_slack == 2 * MiB
      required == img_len + min_slack
  IN  ((required + MiB - 1) \div MiB) * MiB

\* main.rs 1218-1227
AlgoFor(nameHasRsa4096) ==
  IF nameHasRsa4096 THEN "SHA256_RSA4096" ELSE "SHA256_RSA2048"

AvbCall(via, img, name, ps, key, algorithm, io) ==
  /\ apc = "idle"
  /\ acalls < MaxAvbCalls
  /\ \E r \in {add_hash_footer(img, name, ps, key, algorithm, io, signedFile)} :
      /\ acalls' = acalls + 1
      /\ apc' = "done"
      /\ aIn' = [via |-> via, img |-> img, name |-> name, ps |-> ps,
                 key |-> key, algorithm |-> algorithm]
      /\ aRes' = IF via = "workflow" /\ r.res.tag = "Err"
                   THEN AnyhowErr(r.res.msg) ELSE r.res
      /\ aVb' = r.vb
      /\ aCreated' = r.created
      /\ signedFile' = r.file
      /\ AvbOnly

\* main.rs 1201-1240: try_sign_with_external_tools
SignWorkflow(img, name, key, nameHasRsa4096, io) ==
  LET img_len == IF img.readable THEN img.size ELSE 0
  IN  AvbCall("workflow", img, name, PartSizeFor(img_len), key,
              AlgoFor(nameHasRsa4096), io)

\* a caller of the library function with arguments of its own
SignDirect(img, name, ps, key, algorithm, io) ==
  AvbCall("direct", img, name, ps, key, algorithm, io)

\* the caller goes on; the output file stays
AvbDone ==
  /\ apc = "done"
  /\ apc' = "idle"
  /\ aIn' = NoArgs
  /\ aRes' = NoResult
  /\ aVb' = -1
  /\ aCreated' = FALSE
  /\ UNCHANGED <<acalls, signedFile>>
  /\ AvbOnly

NextAvb ==
  \/ \E img \in Images, name \in AvbNames, key \in Keys, h \in BOOLEAN,
        io \in IoOutcomes : SignWorkflow(img, name, key, h, io)
  \/ \E img \in Images, name \in AvbNames, key \in Keys,
        alg \in Algorithms, io \in IoOutcomes :
        \E ps \in PartSizes(img) : SignDirect(img, name, ps, key, alg, io)
  \/ AvbDone

(* ------------------- library functions, applied once ------------------- *)
InitPure ==
  /\ pfn = "none"
  /\ parg = <<>>
  /\ pret = <<>>

\* a library function is applied to an argument and returns
Apply(f, x, r) ==
  /\ pfn = "none"
  /\ pfn' = f
  /\ parg' = x
  /\ pret' = r
  /\ PureOnly

(* --------------------- avb::build_public_key_blob ---------------------- *)
\* The modulus is a big-endian string of KeyLen bytes of ByteBits bits each;
\* the low word n0 is its last four bytes (avb.rs 34-45).
ByteBits == 2
KeyLen == 4 + 1
ByteRange == 2 ^ ByteBits

\* an RSA modulus: no leading zero byte, odd
Moduli ==
  {n \in [1..KeyLen -> 0..(ByteRange - 1)] : n[1] # 0 /\ n[KeyLen] % 2 = 1}

\* avb.rs 46: the word modulus (0x1_0000_0000 for 8-bit bytes)
modulus == ByteRange ^ 4

RECURSIVE from_be_bytes(_)
from_be_bytes(bs) ==
  IF bs = <<>> THEN 0
  ELSE from_be_bytes(SubSeq(bs, 1, Len(bs) - 1)) * ByteRange + bs[Len(bs)]

\* usize::saturating_sub
saturating_sub(a, b) == IF a > b THEN a - b ELSE 0

\* avb.rs 34-45
n0_of(n_be) ==
  IF n_be = <<>> THEN 0
  ELSE from_be_bytes(
         [j \in 1..4 |->
            LET i == j - 1
                at == saturating_sub(Len(n_be), 4 - i)
            IN  IF at > 0 /\ at - 1 < Len(n_be)
                  THEN n_be[Len(n_be) - 4 + i + 1] ELSE 0])

\* avb.rs 47-54
RECURSIVE egcd(_, _)
egcd(a, b) ==
  IF a = 0 THEN <<b, 0, 1>>
  ELSE LET r == egcd(b % a, a)
       IN  <<r[1], r[3] - (b \div a) * r[2], r[2]>>

\* the % of i64: the sign of the dividend
rem(x, m) == IF x >= 0 THEN x % m ELSE -((-x) % m)

Negated_plain(ninv) == ninv
\* avb.rs 63
Negated(ninv) == (modulus - ninv) % modulus

\* avb.rs 55-66
n0inv_of(n0) ==
  IF n0 = 0 THEN 0
  ELSE LET r == egcd(n0 % modulus, modulus)
       IN  IF r[1] = 1
             THEN Negated(rem(rem(r[2], modulus) + modulus, modulus))
             ELSE 0

BuildKeyBlob ==
  \E n \in Moduli :
    Apply("build_public_key_blob", n,
          [bits_bytes |-> Len(n), n0inv |-> n0inv_of(n0_of(n))])

(* ------------------------- utils: newc CPIO ---------------------------- *)
MaxEntries == 2

\* names and contents are byte strings
TRAILER == <<84, 82, 65, 73, 76, 69, 82, 33, 33, 33>>
NEWC_MAGIC == <<48, 55, 48, 55, 48, 49>>
NameInit == <<105, 110, 105, 116>>
CpioEntry(name, perm, data) == [name |-> name, mode |-> perm, data |-> data]

\* the 8 hex digits of a header field
HexDigit(v) == IF v < 10 THEN 48 + v ELSE 87 + v
Hex8(v) == [i \in 1..8 |-> HexDigit((v \div (16 ^ (8 - i))) % 16)]

HexValue(c) ==
  IF c >= 48 /\ c <= 57 THEN c - 48
  ELSE IF c >= 97 /\ c <= 102 THEN c - 87
  ELSE IF c >= 65 /\ c <= 70 THEN c - 55
  ELSE -1

RECURSIVE FromHex(_)
FromHex(bs) ==
  IF bs = <<>> THEN 0
  ELSE LET hi == FromHex(SubSeq(bs, 1, Len(bs) - 1))
           lo == HexValue(bs[Len(bs)])
       IN  IF hi < 0 \/ lo < 0 THEN -1 ELSE hi * 16 + lo

Pad4(n) == ZeroVec((4 - (n % 4)) % 4)

\* one newc record: the 110-byte header, the NUL-terminated name and the
\* data, each padded to 4 bytes
NewcRecord(name, perm, uid, gid, nlink, data) ==
  LET namesize == Len(name) + 1
  IN  NEWC_MAGIC \o Hex8(0) \o Hex8(perm) \o Hex8(uid) \o Hex8(gid)
        \o Hex8(nlink) \o Hex8(0) \o Hex8(Len(data)) \o Hex8(0) \o Hex8(0)
        \o Hex8(0) \o Hex8(0) \o Hex8(namesize) \o Hex8(0)
        \o name \o <<0>> \o Pad4(110 + namesize)
        \o data \o Pad4(Len(data))

RECURSIVE WriteEntries(_)
WriteEntries(entries) ==
  IF entries = <<>> THEN <<>>
  ELSE LET e == Head(entries)
       IN  NewcRecord(e.name, e.mode, 1000, 1000, 1, e.data)
             \o WriteEntries(Tail(entries))

\* utils.rs 270-289
cpio_create_with_threecpio(entries) ==
  WriteEntries(entries) \o NewcRecord(TRAILER, 0, 0, 0, 1, <<>>)

\* cpio::newc::Reader::new at an offset, with the entry's data and the
\* offset finish() leaves the cursor at
ReadRecord(data, off) ==
  IF off + 110 > Len(data) \/ SubSeq(data, off + 1, off + 6) # NEWC_MAGIC
    THEN [ok |-> FALSE]
  ELSE
    LET field(k) == FromHex(SubSeq(data, off + 7 + 8 * k, off + 14 + 8 * k))
        perm == field(1)
        filesize == field(6)
        namesize == field(11)
        name_at == off + 110
        data_at == name_at + namesize + ((4 - ((110 + namesize) % 4)) % 4)
        next == data_at + filesize + ((4 - (filesize % 4)) % 4)
    IN  IF perm < 0 \/ filesize < 0 \/ namesize < 1
             \/ data_at + filesize > Len(data)
          THEN [ok |-> FALSE]
          ELSE [ok |-> TRUE,
                name |-> SubSeq(data, name_at + 1, name_at + namesize - 1),
                mode |-> perm,
                content |-> SubSeq(data, data_at + 1, data_at + filesize),
                next |-> next]

\* utils.rs 201-242: the loop, from a cursor position and the entries so far
RECURSIVE LoadLoop(_, _, _)
LoadLoop(data, off, entries) ==
  LET r == ReadRecord(data, off)
  IN  IF ~r.ok THEN entries
      ELSE IF r.name = TRAILER THEN entries
      ELSE IF r.next > Len(data)
        THEN Append(entries, CpioEntry(r.name, r.mode, r.content))
      ELSE LoadLoop(data, r.next,
                    Append(entries, CpioEntry(r.name, r.mode, r.content)))

\* utils.rs 224-226: the last entry named init
RECURSIVE OldInit(_)
OldInit(entries) ==
  IF entries = <<>> THEN [some |-> FALSE]
  ELSE LET e == entries[Len(entries)]
       IN  IF e.name = NameInit
             THEN [some |-> TRUE, mode |-> e.mode, data |-> e.data]
             ELSE OldInit(SubSeq(entries, 1, Len(entries) - 1))

\* utils.rs 188-268
cpio_load_with_threecpio(data) ==
  IF data = <<>> THEN [tag |-> "Ok", entries |-> <<>>, old_init |-> [some |-> FALSE]]
  ELSE LET entries == LoadLoop(data, 0, <<>>)
       IN  IF entries = <<>>
             THEN PatchError("Failed to parse cpio archive: no entries found")
             ELSE [tag |-> "Ok", entries |-> entries, old_init |-> OldInit(entries)]

\* the entry lists given to the emitter: pairwise distinct names, no trailer
EntryNames == {NameInit, <<97>>, <<115, 98, 105, 110, 47, 120>>}
EntryModes == {488, 33188}
EntryDatas == {<<>>, <<88>>, <<1, 2, 3, 4, 5>>}
EntryPool == {CpioEntry(n, m, x) : n \in EntryNames, m \in EntryModes, x \in EntryDatas}
EntryLists ==
  {l \in UNION {[1..k -> EntryPool] : k \in 0..MaxEntries} :
     \A i, j \in 1..Len(l) : i # j => l[i].name # l[j].name}

CpioRoundTrip ==
  \E entries \in EntryLists :
    Apply("cpio_round_trip", entries,
          cpio_load_with_threecpio(cpio_create_with_threecpio(entries)))

(* ------------------------ utils: ramdisk codecs ------------------------ *)
Formats == {"Gzip", "Xz", "Zstd", "Lz4", "Lz4Legacy", "Uncompressed"}

GZIP_MAGIC == <<31, 139>>
XZ_MAGIC == <<253, 55, 122, 88, 90, 0>>
ZSTD_MAGIC == <<40, 181, 47, 253>>
LZ4_MAGIC == <<4, 34, 77, 24>>
LZ4_LEGACY_MAGIC == <<2, 33, 76, 24>>

StartsWith(data, m) == Len(data) >= Len(m) /\ SubSeq(data, 1, Len(m)) = m
Drop(data, n) == SubSeq(data, n + 1, Len(data))

\* u32::to_le_bytes and u32::from_le_bytes
to_le_bytes(v) == [i \in 1..4 |-> (v \div (256 ^ (i - 1))) % 256]
from_le_bytes(b) == b[1] + 256 * b[2] + 65536 * b[3] + 16777216 * b[4]

\* utils.rs 23-41
detect_ramdisk_format(data) ==
  IF Len(data) < 4 THEN "Uncompressed"
  ELSE IF data[1] = 31 /\ data[2] = 139 THEN "Gzip"
  ELSE IF data[1] = 253 /\ data[2] = 55 /\ data[3] = 122 /\ data[4] = 88
          /\ Len(data) > 5 /\ data[5] = 90 /\ data[6] = 0 THEN "Xz"
  ELSE IF data[1] = 40 /\ data[2] = 181 /\ data[3] = 47 /\ data[4] = 253
    THEN "Zstd"
  ELSE IF data[1] = 4 /\ data[2] = 34 /\ data[3] = 77 /\ data[4] = 24
    THEN "Lz4"
  ELSE IF data[1] = 2 /\ data[2] = 33 /\ data[3] = 76 /\ data[4] = 24
    THEN "Lz4Legacy"
  ELSE "Uncompressed"

\* The encoders and decoders of the codec libraries: a stream is the
\* format's frame around the payload; a decoder rejects a stream whose frame
\* is not whole.
GzEncode(x) == GZIP_MAGIC \o <<8, 0, 0, 0, 0, 0, 0, 255>> \o x \o to_le_bytes(Len(x))
GzDecode(data) ==
  IF Len(data) >= 14 /\ StartsWith(data, GZIP_MAGIC) /\ data[3] = 8
       /\ Drop(data, Len(data) - 4) = to_le_bytes(Len(data) - 14)
    THEN [tag |-> "Ok", data |-> SubSeq(data, 11, Len(data) - 4)]
    ELSE [tag |-> "Err", variant |-> "Io", msg |-> "gzip"]

XzEncode(x) == XZ_MAGIC \o x \o <<89, 90>>
XzDecode(data) ==
  IF Len(data) >= 8 /\ StartsWith(data, XZ_MAGIC)
       /\ Drop(data, Len(data) - 2) = <<89, 90>>
    THEN [tag |-> "Ok", data |-> SubSeq(data, 7, Len(data) - 2)]
    ELSE [tag |-> "Err", variant |-> "PatchError", msg |-> "XZ decompress failed"]

ZstdEncode(x) == ZSTD_MAGIC \o to_le_bytes(Len(x)) \o x
ZstdDecode(data) ==
  IF Len(data) >= 8 /\ StartsWith(data, ZSTD_MAGIC)
       /\ SubSeq(data, 5, 8) = to_le_bytes(Len(data) - 8)
    THEN [tag |-> "Ok", data |-> Drop(data, 8)]
    ELSE [tag |-> "Err", variant |-> "Io", msg |-> "zstd"]

Lz4FrameEncode(x) == LZ4_MAGIC \o to_le_bytes(Len(x)) \o x \o <<0, 0, 0, 0>>
Lz4FrameDecode(data) ==
  IF Len(data) >= 12 /\ StartsWith(data, LZ4_MAGIC)
       /\ SubSeq(data, 5, 8) = to_le_bytes(Len(data) - 12)
       /\ Drop(data, Len(data) - 4) = <<0, 0, 0, 0>>
    THEN [tag |-> "Ok", data |-> SubSeq(data, 9, Len(data) - 4)]
    ELSE [tag |-> "Err", variant |-> "Io", msg |-> "lz4 frame"]

\* lz4_flex::block: one sequence of literals, its length in the token and
\* the bytes after it
RECURSIVE LenExt(_)
LenExt(n) == IF n >= 255 THEN <<255>> \o LenExt(n - 255) ELSE <<n>>
Lz4BlockCompress(x) ==
  IF Len(x) < 15 THEN <<16 * Len(x)>> \o x
  ELSE <<240>> \o LenExt(Len(x) - 15) \o x

RECURSIVE ExtEnd(_, _)
ExtEnd(b, i) ==
  IF i > Len(b) THEN 0 ELSE IF b[i] = 255 THEN ExtEnd(b, i + 1) ELSE i
RECURSIVE ExtSum(_, _, _)
ExtSum(b, i, j) == IF i > j THEN 0 ELSE b[i] + ExtSum(b, i + 1, j)

\* decompress_into a buffer of `cap` bytes
Lz4BlockDecompress(b, cap) ==
  IF b = <<>> \/ b[1] % 16 # 0
    THEN [tag |-> "Err", variant |-> "Lz4", msg |-> "block"]
  ELSE
    LET short == b[1] < 240
        last == IF short THEN 1 ELSE ExtEnd(b, 2)
        n == IF short THEN b[1] \div 16 ELSE 15 + ExtSum(b, 2, last)
    IN  IF last = 0 \/ Len(b) # last + n \/ n > cap
          THEN [tag |-> "Err", variant |-> "Lz4", msg |-> "block"]
          ELSE [tag |-> "Ok", data |-> Drop(b, last)]

\* utils.rs 83: the buffer the legacy block is decoded into
LegacyBufferSize == 128 * 1024 * 1024

\* utils.rs 43-113
decompress_ramdisk(data) ==
  IF Len(data) < 4 THEN [tag |-> "Ok", data |-> data]
  ELSE IF data[1] = 31 /\ data[2] = 139 THEN GzDecode(data)
  ELSE IF SubSeq(data, 1, 4) = SubSeq(XZ_MAGIC, 1, 4)
          /\ Len(data) > 5 /\ data[5] = 90 /\ data[6] = 0 THEN XzDecode(data)
  ELSE IF SubSeq(data, 1, 4) = ZSTD_MAGIC THEN ZstdDecode(data)
  ELSE IF SubSeq(data, 1, 4) = LZ4_MAGIC THEN Lz4FrameDecode(data)
  ELSE IF SubSeq(data, 1, 4) = LZ4_LEGACY_MAGIC
    THEN IF Len(data) > 8
           THEN LET compressed_size == from_le_bytes(SubSeq(data, 5, 8))
                    data_start ==
                      IF Len(data) >= 9 /\ compressed_size + 8 = Len(data) - 1
                        THEN 9 ELSE 8
                    block == Lz4BlockDecompress(Drop(data, data_start),
                                                LegacyBufferSize)
                    frame == Lz4FrameDecode(Drop(data, data_start))
                IN  IF block.tag = "Ok" THEN block
                    ELSE IF frame.tag = "Ok" THEN frame
                    ELSE PatchError("LZ4 Legacy decompression failed")
           ELSE PatchError("LZ4 Legacy data too short")
  ELSE [tag |-> "Ok", data |-> data]

Lz4LegacyEncode_nosize(x) == LZ4_LEGACY_MAGIC \o Lz4BlockCompress(x)
\* utils.rs 137-146
Lz4LegacyEncode(x) ==
  LZ4_LEGACY_MAGIC \o to_le_bytes(Len(Lz4BlockCompress(x))) \o Lz4BlockCompress(x)

\* utils.rs 115-149
compress_ramdisk(fmt, data) ==
  CASE fmt = "Gzip" -> GzEncode(data)
    [] fmt = "Xz" -> XzEncode(data)
    [] fmt = "Zstd" -> ZstdEncode(data)
    [] fmt = "Lz4" -> Lz4FrameEncode(data)
    [] fmt = "Lz4Legacy" -> Lz4LegacyEncode(data)
    [] OTHER -> data

\* byte strings given to the codecs: plain ones, and ones that begin like
\* an encoded stream
CodecInputs ==
  {<<>>, <<65>>, <<1, 2, 3>>, NEWC_MAGIC \o <<48, 48>>,
   [i \in 1..20 |-> i], GZIP_MAGIC, GZIP_MAGIC \o <<8, 0>>,
   XZ_MAGIC, ZSTD_MAGIC \o <<7>>, LZ4_MAGIC, LZ4_LEGACY_MAGIC,
   LZ4_LEGACY_MAGIC \o <<1, 0, 0, 0, 0>>}

CodecRoundTrip ==
  \E f \in Formats, x \in CodecInputs :
    Apply("codec_round_trip", [fmt |-> f, x |-> x],
          [detected |-> detect_ramdisk_format(compress_ramdisk(f, x)),
           back |-> decompress_ramdisk(compress_ramdisk(f, x))])

(* ------------------- file_finder: extract_kernelsu_kmi ------------------ *)
\* a string is the sequence of its characters
MaxTail == 2

KO_SUFFIX == <<"_", "k", "e", "r", "n", "e", "l", "s", "u", ".", "k", "o">>
ANDROID == <<"a", "n", "d", "r", "o", "i", "d">>

Letters ==
  {"a", "b", "c", "d", "e", "f", "g", "h", "i", "j", "k", "l", "m", "n", "o",
   "p", "q", "r", "s", "t", "u", "v", "w", "x", "y", "z",
   "A", "B", "C", "D", "E", "F", "G", "H", "I", "J", "K", "L", "M", "N", "O",
   "P", "Q", "R", "S", "T", "U", "V", "W", "X", "Y", "Z"}
Digits == {"0", "1", "2", "3", "4", "5", "6", "7", "8", "9"}
is_ascii_alphanumeric(c) == c \in Letters \cup Digits

ends_with(str, suffix) ==
  Len(str) >= Len(suffix) /\ Drop(str, Len(str) - Len(suffix)) = suffix
starts_with(str, prefix) == StartsWith(str, prefix)

\* str::find: the first position (from 0) where the pattern starts, -1 for None
find(str, pat) ==
  LET hits == {i \in 0..(Len(str) - Len(pat)) :
                 SubSeq(str, i + 1, i + Len(pat)) = pat}
  IN  IF hits = {} THEN -1 ELSE CHOOSE i \in hits : \A j \in hits : i <= j

KmiChar_nodot(c) == is_ascii_alphanumeric(c) \/ c = "-"
KmiChar(c) == is_ascii_alphanumeric(c) \/ c = "-" \/ c = "."

RECURSIVE take_while(_)
take_while(str) ==
  IF str # <<>> /\ KmiChar(Head(str))
    THEN <<Head(str)>> \o take_while(Tail(str))
    ELSE <<>>

None == [tag |-> "None"]
Some(v) == [tag |-> "Some", value |-> v]

\* file_finder.rs 112-134
extract_kernelsu_kmi(filename) ==
  IF ~ends_with(filename, KO_SUFFIX) THEN None
  ELSE
    LET without_suffix == SubSeq(filename, 1, Len(filename) - Len(KO_SUFFIX))
        start == find(without_suffix, ANDROID)
        cleaned == take_while(Drop(without_suffix, start))
    IN  IF start >= 0 /\ cleaned # <<>> /\ starts_with(cleaned, ANDROID)
          THEN Some(cleaned)
          ELSE None

RECURSIVE SeqsUpTo(_, _)
SeqsUpTo(S, n) ==
  IF n = 0 THEN {<<>>}
  ELSE SeqsUpTo(S, n - 1)
         \cup {Append(q, c) : q \in SeqsUpTo(S, n - 1), c \in S}

\* file names: something, a word, a tail of MaxTail characters, an ending
FileNames ==
  {p \o w \o t \o e :
     p \in {<<>>, <<"x">>, <<"x", "_">>, <<"m", "y", "-">>},
     w \in {ANDROID, <<"A", "n", "d", "r", "o", "i", "d">>, <<"a", "n", "d">>},
     t \in SeqsUpTo({"1", "4", "-", ".", "_"}, MaxTail),
     e \in {KO_SUFFIX, <<".", "k", "o">>, KO_SUFFIX \o <<"~">>, <<>>}}

ExtractKmi ==
  \E name \in FileNames :
    Apply("extract_kernelsu_kmi", name, extract_kernelsu_kmi(name))

(* -------------------------- sepolicy: parse ----------------------------- *)
\* a u32 is kept as its two 16-bit halves, high half first
u32_from_le_bytes(b) == <<b[3] + 256 * b[4], b[1] + 256 * b[2]>>

\* sepolicy.rs 3: 0xf97cff8f
POLICYDB_MAGIC == <<63868, 65423>>

i32_from_le_bytes_swapped(b) ==
  b[4] + 256 * b[3] + 65536 * b[2]
    + 16777216 * (IF b[1] >= 128 THEN b[1] - 256 ELSE b[1])
i32_from_le_bytes(b) ==
  b[1] + 256 * b[2] + 65536 * b[3]
    + 16777216 * (IF b[4] >= 128 THEN b[4] - 256 ELSE b[4])

\* sepolicy.rs 12-37
Sepolicy_parse(data) ==
  IF Len(data) < 8 THEN PatchError("sepolicy data too small")
  ELSE IF u32_from_le_bytes(SubSeq(data, 1, 4)) # POLICYDB_MAGIC
    THEN PatchError("Invalid sepolicy magic")
  ELSE [tag |-> "Ok", data |-> data,
        version |-> i32_from_le_bytes(SubSeq(data, 5, 8))]

PolicyHeads ==
  {<<143, 255, 124, 249>>, <<249, 124, 255, 143>>, <<142, 255, 124, 249>>,
   <<143, 254, 124, 249>>, <<143, 255, 125, 249>>, <<143, 255, 124, 248>>}
PolicyVersions ==
  {<<30, 0, 0, 0>>, <<33, 0, 0, 0>>, <<0, 1, 2, 3>>, <<0, 0, 0, 128>>,
   <<255, 255, 255, 255>>}
PolicyBodies == {<<>>, <<1>>, <<1, 2>>}

\* every prefix of a header followed by a body
PolicyInputs ==
  UNION {{SubSeq(h \o v \o b, 1, k) : k \in 0..Len(h \o v \o b)} :
           h \in PolicyHeads, v \in PolicyVersions, b \in PolicyBodies}

SepolicyParse ==
  \E data \in PolicyInputs : Apply("Sepolicy::parse", data, Sepolicy_parse(data))

(* ---------------------- flasher: ramdisk patching ---------------------- *)
NAME_INIT_REAL == <<105, 110, 105, 116, 46, 114, 101, 97, 108>>
NAME_KERNELSU_KO == <<107, 101, 114, 110, 101, 108, 115, 117, 46, 107, 111>>
NAME_BACKUP_MAGISK == <<46, 98, 97, 99, 107, 117, 112, 47, 46, 109, 97, 103, 105, 115, 107>>
NAME_SEPOLICY == <<115, 101, 112, 111, 108, 105, 99, 121>>
PREFIX_OVERLAY == <<111, 118, 101, 114, 108, 97, 121, 46, 100>>
PREFIX_BACKUP == <<46, 98, 97, 99, 107, 117, 112>>
NAME_MAGISK_XZ == <<111, 118, 101, 114, 108, 97, 121, 46, 100, 47, 115, 98, 105, 110, 47, 109, 97, 103, 105, 115, 107, 46, 120, 122>>
NAME_STUB_XZ == <<111, 118, 101, 114, 108, 97, 121, 46, 100, 47, 115, 98, 105, 110, 47, 115, 116, 117, 98, 46, 120, 122>>
NAME_INIT_LD_XZ == <<111, 118, 101, 114, 108, 97, 121, 46, 100, 47, 115, 98, 105, 110, 47, 105, 110, 105, 116, 45, 108, 100, 46, 120, 122>>
PREFIX_KSUINIT_D == <<107, 115, 117, 105, 110, 105, 116, 46, 100, 47>>
CPIO_070707 == <<48, 55, 48, 55, 48, 55>>
CPIO_070702 == <<48, 55, 48, 55, 48, 50>>
MAGISK_CONFIG == <<75, 69, 69, 80, 86, 69, 82, 73, 84, 89, 61, 102, 97, 108, 115, 101, 10, 75, 69, 69, 80, 70, 79, 82, 67, 69, 69, 78, 67, 82, 89, 80, 84, 61, 102, 97, 108, 115, 101, 10, 82, 69, 67, 79, 86, 69, 82, 89, 77, 79, 68, 69, 61, 102, 97, 108, 115, 101, 10, 86, 69, 78, 68, 79, 82, 66, 79, 79, 84, 61, 102, 97, 108, 115, 101, 10, 83, 72, 65, 49, 61>>
MAGISK_RULES == <<97, 108, 108, 111, 119, 0>>

\* a boot image: its kernel block (empty for init_boot) and its ramdisk
\* block; the other blocks play no part in patching
NoBlock == [present |-> FALSE, data |-> <<>>]
Block(data) == [present |-> TRUE, data |-> data]
BootImage(kernel, ramdisk) == [kernel |-> kernel, ramdisk |-> ramdisk]
NoImage == [exists |-> FALSE]
ImageFile(img) == [exists |-> TRUE, image |-> img]

\* BootImagePatchOption::replace_ramdisk and patch with preserve_all = true
replace_ramdisk(img, ramdisk) == BootImage(img.kernel, Block(ramdisk))

RECURSIVE ByteSum(_)
ByteSum(data) ==
  IF data = <<>> THEN 0
  ELSE IF Len(data) = 1 THEN data[1]
  ELSE (ByteSum(SubSeq(data, 1, Len(data) \div 2))
          + 31 * ByteSum(SubSeq(data, Len(data) \div 2 + 1, Len(data)))) % 65536
\* the hex digest of the image file, a checksum standing for SHA-1
Sha1Hex(img) ==
  Hex8((ByteSum(img.kernel.data) * 7 + ByteSum(img.ramdisk.data)
          + (IF img.ramdisk.present THEN 1 ELSE 0)) % 65536)

\* flasher.rs 15-40
FirstAt(data, pats) ==
  LET hits == {o \in 0..(Len(data) - 7) : SubSeq(data, o + 1, o + 6) \in pats}
  IN  IF hits = {} THEN -1 ELSE CHOOSE o \in hits : \A q \in hits : o <= q
detect_and_skip_cpio_header(data) ==
  IF Len(data) < 10 THEN 0
  ELSE IF SubSeq(data, 1, 6) = NEWC_MAGIC THEN 0
  ELSE IF FirstAt(data, {NEWC_MAGIC}) >= 0 THEN FirstAt(data, {NEWC_MAGIC})
  ELSE IF FirstAt(data, {CPIO_070707, CPIO_070702}) >= 0
    THEN FirstAt(data, {CPIO_070707, CPIO_070702})
  ELSE 0

\* Vec::retain
retain(entries, keep(_)) == SelectSeq(entries, keep)

\* utils.rs 151-167: the content of the first record of that name
RECURSIVE ExtractFrom(_, _, _)
ExtractFrom(data, off, target_name) ==
  LET r == ReadRecord(data, off)
  IN  IF ~r.ok THEN None
      ELSE IF r.name = target_name THEN Some(r.content)
      ELSE IF r.name = TRAILER \/ r.next > Len(data) THEN None
      ELSE ExtractFrom(data, r.next, target_name)
cpio_extract_file(data, target_name) == ExtractFrom(data, 0, target_name)

\* flasher.rs 120-126
is_magisk_patched(entries) ==
  \E i \in 1..Len(entries) : entries[i].name = NAME_BACKUP_MAGISK
is_kernelsu_patched(entries) ==
  \E i \in 1..Len(entries) : entries[i].name = NAME_KERNELSU_KO

\* flasher.rs 665-687: one optional asset, XZ-compressed
Asset(name, data) ==
  IF data = <<>> THEN <<>> ELSE <<CpioEntry(name, 420, XzEncode(data))>>

\* flasher.rs 694-706
SepolicyEntry(ramdisk_data) ==
  LET found == cpio_extract_file(ramdisk_data, NAME_SEPOLICY)
  IN  IF found.tag = "None" THEN <<>>
      ELSE IF Sepolicy_parse(found.value).tag = "Ok"
        THEN <<CpioEntry(NAME_SEPOLICY, 420, found.value \o MAGISK_RULES)>>
        ELSE <<CpioEntry(NAME_SEPOLICY, 420, found.value)>>

KeepInit(entries) == entries
DropInit(entries) == retain(entries, LAMBDA e : e.name # NameInit)

\* flasher.rs 650-712
patch_ramdisk_entries(entries, magiskinit, magiskbin, stub, init_ld, sha1_sum, ramdisk_data) ==
  retain(DropInit(entries) \o <<CpioEntry(NameInit, 488, magiskinit)>>,
         LAMBDA e : ~StartsWith(e.name, PREFIX_OVERLAY)
                      /\ ~StartsWith(e.name, PREFIX_BACKUP))
    \o Asset(NAME_MAGISK_XZ, magiskbin)
    \o Asset(NAME_STUB_XZ, stub)
    \o Asset(NAME_INIT_LD_XZ, init_ld)
    \o <<CpioEntry(NAME_BACKUP_MAGISK, 0, MAGISK_CONFIG \o sha1_sum \o <<10>>)>>
    \o SepolicyEntry(ramdisk_data)

\* flasher.rs 519-568: the ramdisk the patch works on
MagiskRamdiskData(img) ==
  IF ~img.ramdisk.present THEN <<>>
  ELSE
    LET raw_rd == img.ramdisk.data
        dec == decompress_ramdisk(raw_rd)
        ramdisk_data ==
          IF dec.tag = "Ok" /\ Len(dec.data) # Len(raw_rd) THEN dec.data
          ELSE raw_rd
    IN  Drop(ramdisk_data, detect_and_skip_cpio_header(ramdisk_data))

SameCodec(fmt, data) == compress_ramdisk(fmt, data)
\* flasher.rs 583-586
MagiskCompress(fmt, data) == GzEncode(data)

\* flasher.rs 489-648 with target_partition "", as both callers pass it:
\* the result, the image written and the fastboot invocations
do_magisk_patch(img, a) ==
  LET ramdisk_data == MagiskRamdiskData(img)
      loaded == IF ramdisk_data = <<>>
                  THEN [tag |-> "Ok", entries |-> <<>>]
                  ELSE cpio_load_with_threecpio(ramdisk_data)
  IN  IF loaded.tag # "Ok"
        THEN [res |-> loaded, wrote |-> NoImage, file |-> FALSE, fastboot |-> 0]
      ELSE
        LET entries == patch_ramdisk_entries(loaded.entries, a.magiskinit,
                         a.magiskbin, a.stub, a.init_ld, Sha1Hex(img),
                         ramdisk_data)
            fmt == IF img.ramdisk.present
                     THEN detect_ramdisk_format(img.ramdisk.data)
                     ELSE "Uncompressed"
            final_ramdisk ==
              MagiskCompress(fmt, cpio_create_with_threecpio(entries))
            out == ImageFile(replace_ramdisk(img, final_ramdisk))
        IN  [res |-> [tag |-> "Ok",
                      out_name |-> IF img.kernel.present /\ img.kernel.data # <<>>
                                     THEN "magisk_patched_boot.img"
                                     ELSE "magisk_patched_init_boot.img"],
             wrote |-> out, file |-> TRUE, fastboot |-> 0]

\* flasher.rs 422-467
magisk_patch(img, a) ==
  IF a.magiskinit = <<>>
    THEN [res |-> PatchError("libmagiskinit.so not found"),
          wrote |-> NoImage, file |-> FALSE, fastboot |-> 0]
    ELSE do_magisk_patch(img, a)

\* flasher.rs 187-201: the files of the ksuinit.d directory
KsuinitD(dir) ==
  [i \in 1..Len(dir) |-> CpioEntry(PREFIX_KSUINIT_D \o dir[i].name, 493, dir[i].data)]

Refuses_never(entries, force) == FALSE
\* flasher.rs 159-167
Refuses(entries, force) == is_magisk_patched(entries) /\ ~force

\* an operation that returns before it writes anything
Returns(res) == [res |-> res, wrote |-> NoImage, file |-> FALSE, fastboot |-> 0]

\* flasher.rs 203-219: recompress, write the image, flash it, remove it
KsuWrite(img, fmt, entries, flashed) ==
  [res |-> IF flashed = "true" THEN [tag |-> "Ok"]
           ELSE IF flashed = "false"
             THEN [tag |-> "Err", variant |-> "FastbootError",
                   msg |-> "Failed to flash patched KSU image"]
           ELSE [tag |-> "Err", variant |-> "Io", msg |-> "fastboot"],
   wrote |-> ImageFile(replace_ramdisk(img,
               SameCodec(fmt, cpio_create_with_threecpio(entries)))),
   file |-> FALSE,
   fastboot |-> 1]

\* flasher.rs 173-201: the entries of the patched ramdisk
KsuEntries(loaded, a) ==
  DropInit(loaded.entries)
    \o (IF loaded.old_init.some
          THEN <<CpioEntry(NAME_INIT_REAL, loaded.old_init.mode,
                           loaded.old_init.data)>>
          ELSE <<>>)
    \o <<CpioEntry(NameInit, 493, a.ksuinit),
         CpioEntry(NAME_KERNELSU_KO, 493, a.ko)>>
    \o KsuinitD(a.ksuinit_d)

\* flasher.rs 153-157
KsuLoad(rd_decomp) ==
  IF rd_decomp = <<>>
    THEN [tag |-> "Ok", entries |-> <<>>, old_init |-> [some |-> FALSE]]
    ELSE cpio_load_with_threecpio(rd_decomp)

\* flasher.rs 128-220; `flashed` is what client.run returns
kernelsu_lkm_install(img, a, flashed) ==
  IF ~img.ramdisk.present THEN Returns(PatchError("no ramdisk"))
  ELSE IF decompress_ramdisk(img.ramdisk.data).tag # "Ok"
    THEN Returns(decompress_ramdisk(img.ramdisk.data))
  ELSE
    LET loaded == KsuLoad(decompress_ramdisk(img.ramdisk.data).data)
    IN  IF loaded.tag # "Ok" THEN Returns(loaded)
        ELSE IF Refuses(loaded.entries, a.force)
          THEN Returns(PatchError("Magisk-patched image"))
        ELSE KsuWrite(img, detect_ramdisk_format(img.ramdisk.data),
                      KsuEntries(loaded, a), flashed)

\* ------------------------------ inputs --------------------------------
POLICY_OK == <<143, 255, 124, 249, 30, 0, 0, 0, 1>>
POLICY_BAD == <<1, 2, 3>>
InputLists ==
  {<<CpioEntry(NameInit, 488, <<73>>)>>,
   <<CpioEntry(NameInit, 488, <<73>>), CpioEntry(NAME_SEPOLICY, 420, POLICY_OK)>>,
   <<CpioEntry(NAME_SEPOLICY, 384, POLICY_BAD),
     CpioEntry(PREFIX_OVERLAY \o <<47, 120>>, 420, <<>>)>>,
   <<CpioEntry(NAME_INIT_REAL, 488, <<73>>), CpioEntry(NameInit, 493, <<75>>),
     CpioEntry(NAME_KERNELSU_KO, 493, <<79>>)>>,
   <<CpioEntry(NameInit, 488, <<77>>),
     CpioEntry(NAME_MAGISK_XZ, 420, XzEncode(<<66>>)),
     CpioEntry(NAME_BACKUP_MAGISK, 0, MAGISK_CONFIG \o Hex8(1) \o <<10>>)>>,
   <<CpioEntry(PREFIX_OVERLAY \o <<120>>, 420, <<1>>),
     CpioEntry(NameInit, 488, <<73>>),
     CpioEntry(PREFIX_BACKUP \o <<95, 50>>, 384, <<2>>),
     CpioEntry(<<97>>, 420, <<3>>)>>}
VENDOR_HEADER == <<86, 69, 78, 68, 79, 82, 0, 0>>
RamdiskContents ==
  {cpio_create_with_threecpio(l) : l \in InputLists}
    \cup {VENDOR_HEADER
            \o cpio_create_with_threecpio(<<CpioEntry(NameInit, 488, <<73>>)>>),
          <<>>}
KERNEL == <<75, 69, 82, 78>>
\* boot images with every ramdisk in every format, an init_boot image, an
\* image whose ramdisk is a cut-off gzip stream, an image with no ramdisk
InputImages ==
  {BootImage(Block(KERNEL), Block(compress_ramdisk(f, c))) :
     f \in Formats, c \in RamdiskContents}
    \cup {BootImage(Block(<<>>),
                    Block(compress_ramdisk("Lz4Legacy",
                      cpio_create_with_threecpio(
                        <<CpioEntry(NameInit, 488, <<73>>)>>)))),
          BootImage(Block(KERNEL), Block(GZIP_MAGIC \o <<8, 0>>)),
          BootImage(Block(KERNEL), NoBlock)}

Assets(i, m, t, l) == [magiskinit |-> i, magiskbin |-> m, stub |-> t, init_ld |-> l]
MagiskAssets ==
  {Assets(<<77, 73>>, <<66>>, <<83>>, <<76>>),
   Assets(<<77, 73>>, <<66>>, <<>>, <<>>),
   Assets(<<77, 73>>, <<>>, <<83>>, <<76>>),
   Assets(<<77, 73>>, <<>>, <<>>, <<>>),
   Assets(<<>>, <<66>>, <<>>, <<>>)}
KsuFiles(d, f) == [ksuinit |-> <<75, 83>>, ko |-> <<75, 79>>, ksuinit_d |-> d, force |-> f]
KsuArgs ==
  {KsuFiles(<<>>, FALSE), KsuFiles(<<>>, TRUE),
   KsuFiles(<<[name |-> <<97>>, data |-> <<1>>]>>, TRUE)}
RunOutcomes == {"true", "false", "error"}

InitPatch ==
  /\ bpc = "idle"
  /\ bImage = BootImage(NoBlock, NoBlock)
  /\ bOp = [kind |-> "none"]
  /\ bRes = [tag |-> "none"]
  /\ bWrote = NoImage
  /\ bFile = FALSE
  /\ bFastboot = 0

\* the images a patch can be given: any input image at first, the patched
\* image file left on disk afterwards
Given ==
  IF bpc = "idle" THEN InputImages
  ELSE IF bpc = "patched" /\ bFile THEN {bWrote.image}
  ELSE {}
Stage == IF bpc = "idle" THEN "patched" ELSE "repatched"

Done(img, op, r) ==
  /\ bpc' = Stage
  /\ bImage' = img
  /\ bOp' = op
  /\ bRes' = r.res
  /\ bWrote' = r.wrote
  /\ bFile' = r.file
  /\ bFastboot' = r.fastboot
  /\ PatchOnly

MagiskPatch ==
  \E img \in Given, a \in MagiskAssets :
    \E r \in {magisk_patch(img, a)} :
      Done(img, [kind |-> "magisk"] @@ a, r)

KsuInstall ==
  \E img \in Given, a \in KsuArgs, flashed \in RunOutcomes :
    \E r \in {kernelsu_lkm_install(img, a, flashed)} :
      Done(img, [kind |-> "ksu"] @@ a, r)

NextPatch == MagiskPatch \/ KsuInstall

(* ------------------ flasher: APatch and AnyKernel3 --------------------- *)
\* the file names, for target_partition "boot"
TEMP_KERNEL == "temp_kernel_boot"
PATCHED_KERNEL == "temp_kernel_patched_boot"
APATCH_OUT == "apatch_patched_boot.img"
AK3_OUT == "ak3_patched_boot.img"

IoErr(m) == [tag |-> "Err", variant |-> "Io", msg |-> m]

\* BootImagePatchOption::replace_kernel
replace_kernel(img, kernel) == BootImage(Block(kernel), img.ramdisk)

\* the KernelPatch installation and one run of kptools: whether the tool
\* and kpimg are installed, how the process ended, what it left at --out
Tool(kptools, kpimg, run, output) ==
  [kptools |-> kptools, kpimg |-> kpimg, run |-> run, output |-> output]
Tools ==
  {Tool(FALSE, TRUE, "none", "none"), Tool(TRUE, FALSE, "none", "none"),
   Tool(TRUE, TRUE, "launch failed", "none"),
   Tool(TRUE, TRUE, "exit 1", "none"), Tool(TRUE, TRUE, "exit 1", "written"),
   Tool(TRUE, TRUE, "exit 0", "none"), Tool(TRUE, TRUE, "exit 0", "unreadable"),
   Tool(TRUE, TRUE, "exit 0", "written")}

\* the kernel kptools writes: the input kernel with kpimg embedded
KPIMG == <<75, 80, 73>>
KpPatched(raw_kernel) == raw_kernel \o KPIMG

\* flasher.rs 313-355: the result and the temporary files left on disk
run_kptools(raw_kernel, tool) ==
  IF ~tool.kptools \/ ~tool.kpimg
    THEN [res |-> PatchError("KernelPatch tool or kpimg not found"),
          left |-> {}]
  ELSE IF tool.run = "launch failed"
    THEN [res |-> IoErr("spawn"), left |-> {TEMP_KERNEL}]
  ELSE IF tool.run = "exit 1"
    THEN [res |-> PatchError("KernelPatch failed"),
          left |-> IF tool.output = "none" THEN {} ELSE {PATCHED_KERNEL}]
  ELSE IF tool.output = "none"
    THEN [res |-> IoErr("read"), left |-> {TEMP_KERNEL}]
  ELSE IF tool.output = "unreadable"
    THEN [res |-> IoErr("read"), left |-> {TEMP_KERNEL, PATCHED_KERNEL}]
  ELSE [res |-> [tag |-> "Ok", data |-> KpPatched(raw_kernel)], left |-> {}]

\* flasher.rs 231-236 and 267-272
was_compressed(kernel_data) ==
  /\ decompress_ramdisk(kernel_data).tag = "Ok"
  /\ Len(decompress_ramdisk(kernel_data).data) # Len(kernel_data)
raw_kernel_of(kernel_data) ==
  IF was_compressed(kernel_data) THEN decompress_ramdisk(kernel_data).data
  ELSE kernel_data

\* flasher.rs 240-244 and 279-283
Recompress(kernel_data, new_kernel_data) ==
  IF was_compressed(kernel_data) THEN GzEncode(new_kernel_data)
  ELSE new_kernel_data

\* an operation that returns before it writes its output image
KernelFails(res, left) ==
  [res |-> res, wrote |-> NoImage, disk |-> left, fastboot |-> 0]

\* flasher.rs 246-259, 296-309 and 394-419: write the image, then flash and
\* remove it when auto_flash is set; `flashed` is what client.run returns
WriteAndFlash(out_name, content, auto_flash, flashed, ok, msg) ==
  [res |-> IF ~auto_flash \/ flashed = "true" THEN ok
           ELSE IF flashed = "false" THEN FlashErr("FastbootError", msg)
           ELSE IoErr("fastboot"),
   wrote |-> [exists |-> TRUE, name |-> out_name, content |-> content],
   disk |-> IF auto_flash THEN {} ELSE {out_name},
   fastboot |-> IF auto_flash THEN 1 ELSE 0]

\* BootImage::parse of the input file
Parsed(img) == [tag |-> "Ok", image |-> img]
Unparsable == PatchError("parse")

\* flasher.rs 222-311; `file` is the input file: its bytes for a raw
\* kernel, else what BootImage::parse makes of it
apatch_patch(file, is_raw_kernel, auto_flash, tool, flashed) ==
  IF ~is_raw_kernel /\ file.tag # "Ok" THEN KernelFails(file, {})
  ELSE IF ~is_raw_kernel /\ (~file.image.kernel.present
                               \/ file.image.kernel.data = <<>>)
    THEN KernelFails(PatchError("no kernel data in the image"), {})
  ELSE
    LET kernel_data == IF is_raw_kernel THEN file
                       ELSE file.image.kernel.data
        patched == run_kptools(raw_kernel_of(kernel_data), tool)
    IN  IF patched.res.tag # "Ok" THEN KernelFails(patched.res, patched.left)
        ELSE WriteAndFlash(APATCH_OUT,
               IF is_raw_kernel
                 THEN Recompress(kernel_data, patched.res.data)
                 ELSE replace_kernel(file.image,
                        Recompress(kernel_data, patched.res.data)),
               auto_flash, flashed, [tag |-> "Ok"],
               "Failed to flash patched APatch image")

\* ZipArchive::new and the search for the Image entry
BadZip == PatchError("zip")
Zip(found) == [tag |-> "Ok", found |-> found]

\* flasher.rs 357-420
anykernel3_root(zip, file, is_raw_kernel, auto_flash, flashed) ==
  IF zip.tag # "Ok" THEN KernelFails(zip, {})
  ELSE IF zip.found.tag = "None"
    THEN KernelFails(PatchError("no Image file in the ZIP"), {})
  ELSE IF ~is_raw_kernel /\ file.tag # "Ok" THEN KernelFails(file, {})
  ELSE WriteAndFlash(AK3_OUT,
         IF is_raw_kernel THEN zip.found.value
         ELSE replace_kernel(file.image, zip.found.value),
         auto_flash, flashed, [tag |-> "Ok", path |-> AK3_OUT],
         "Failed to flash AnyKernel3 image")

\* ------------------------------ inputs --------------------------------
RAW_KERNEL == <<65, 82, 77, 100, 1, 2>>
NEW_KERNEL == <<65, 82, 77, 100, 9>>
\* a kernel in every format, and a cut-off gzip stream
KernelFiles ==
  {compress_ramdisk(f, RAW_KERNEL) : f \in Formats}
    \cup {GZIP_MAGIC \o <<8, 0>>}
RAMDISK == <<82, 68>>
BootFiles ==
  {Parsed(BootImage(Block(k), Block(RAMDISK))) : k \in KernelFiles}
    \cup {Parsed(BootImage(NoBlock, Block(RAMDISK))), Unparsable}
Zips == {BadZip, Zip(None), Zip(Some(NEW_KERNEL)), Zip(Some(GzEncode(NEW_KERNEL)))}

InitKernel ==
  /\ kpc = "idle"
  /\ kOp = [kind |-> "none"]
  /\ kRes = [tag |-> "none"]
  /\ kWrote = NoImage
  /\ kDisk = {}
  /\ kFastboot = 0

KernelDone(op, r) ==
  /\ kpc = "idle"
  /\ kpc' = "returned"
  /\ kOp' = op
  /\ kRes' = r.res
  /\ kWrote' = r.wrote
  /\ kDisk' = r.disk
  /\ kFastboot' = r.fastboot
  /\ KernelOnly

ApatchPatch ==
  \E is_raw_kernel \in BOOLEAN, auto_flash \in BOOLEAN, tool \in Tools,
     flashed \in RunOutcomes :
    \E file \in IF is_raw_kernel THEN KernelFiles ELSE BootFiles :
      KernelDone([kind |-> "apatch", file |-> file,
                  is_raw_kernel |-> is_raw_kernel, auto_flash |-> auto_flash,
                  tool |-> tool, flashed |-> flashed],
                 apatch_patch(file, is_raw_kernel, auto_flash, tool, flashed))

Anykernel3Root ==
  \E is_raw_kernel \in BOOLEAN, auto_flash \in BOOLEAN, zip \in Zips,
     flashed \in RunOutcomes :
    \E file \in IF is_raw_kernel THEN KernelFiles ELSE BootFiles :
      KernelDone([kind |-> "ak3", file |-> file, zip |-> zip,
                  is_raw_kernel |-> is_raw_kernel, auto_flash |-> auto_flash,
                  flashed |-> flashed],
                 anykernel3_root(zip, file, is_raw_kernel, auto_flash, flashed))

NextKernel == ApatchPatch \/ Anykernel3Root

(* ------------------------- cli: root workflows -------------------------- *)
Workflows == {"magisk", "apatch", "ksu_lkm", "ak3"}

\* the image a workflow's patch step leaves in the working directory
Patched(w) ==
  CASE w = "magisk" -> "magisk_patched_boot.img"
    [] w = "apatch" -> "apatch_patched_boot.img"
    [] w = "ksu_lkm" -> "ksu_lkm_patched_boot.img"
    [] w = "ak3" -> "ak3_patched_boot.img"
\* avb::add_hash_footer writes <stem>.signed.img
SignedImage(w) ==
  CASE w = "magisk" -> "magisk_patched_boot.signed.img"
    [] w = "apatch" -> "apatch_patched_boot.signed.img"
    [] w = "ksu_lkm" -> "ksu_lkm_patched_boot.signed.img"
    [] w = "ak3" -> "ak3_patched_boot.signed.img"

\* main.rs 1099-1121: flash_apatch runs fastboot itself, the others pick a
\* device and call flash_partition
PicksDevice(w) == w # "apatch"

\* main.rs 889-892 and 996-999 (flash_magisk), 1116-1121 (flash_apatch),
\* 1505-1509 (flash_kernelsu_lkm), 1615-1619 (flash_anykernel3)
RemovesAfterFlash(w) == w # "magisk"

Running == [outcome |-> "running"]
Ended(w, outcome, final) == [flow |-> w, outcome |-> outcome, final |-> final]

InitRoot ==
  /\ rpc = "menu"
  /\ rflow = "none"
  /\ rdisk = {}
  /\ rfinal = ""
  /\ rlast = [outcome |-> "none"]

\* the patch step of a workflow: magisk_patch_with_files or magisk_patch
\* with target "", apatch_patch and anykernel3_root with auto_flash =
\* false, kernelsu_lkm_patch
RootPatch ==
  \E w \in Workflows, ok \in BOOLEAN :
    /\ rpc = "menu"
    /\ rflow' = w
    /\ IF ok
         THEN /\ rdisk' = rdisk \cup {Patched(w)}
              /\ rfinal' = Patched(w)
              /\ rpc' = "sign"
              /\ rlast' = Running
         ELSE /\ rpc' = "menu"
              /\ rlast' = Ended(w, "patch_failed", "")
              /\ UNCHANGED <<rdisk, rfinal>>
    /\ RootOnly

\* the AVB signing prompt: the answer, whether a key is found, whether
\* try_sign_with_external_tools succeeds
RootSign ==
  \E answer \in {"y", "n"}, key \in BOOLEAN, signed \in BOOLEAN :
    /\ rpc = "sign"
    /\ IF answer = "y" /\ key /\ signed
         THEN /\ rdisk' = rdisk \cup {SignedImage(rflow)}
              /\ rfinal' = SignedImage(rflow)
         ELSE UNCHANGED <<rdisk, rfinal>>
    /\ rpc' = "confirm"
    /\ UNCHANGED <<rflow, rlast>>
    /\ RootOnly

\* the flash prompt to the end of the workflow
RootFlash ==
  \E agreed \in BOOLEAN, device \in BOOLEAN, flashed \in BOOLEAN :
    /\ rpc = "confirm"
    /\ rpc' = "menu"
    /\ IF ~agreed
         THEN /\ rlast' = Ended(rflow, "declined", rfinal)
              /\ UNCHANGED rdisk
         ELSE IF PicksDevice(rflow) /\ ~device
           THEN /\ rlast' = Ended(rflow, "no_device", rfinal)
                /\ UNCHANGED rdisk
         ELSE IF ~flashed
           THEN /\ rlast' = Ended(rflow, "flash_failed", rfinal)
                /\ UNCHANGED rdisk
         ELSE /\ rlast' = Ended(rflow, "flashed", rfinal)
              /\ rdisk' = IF RemovesAfterFlash(rflow)
                            THEN rdisk \ {rfinal} ELSE rdisk
    /\ UNCHANGED <<rflow, rfinal>>
    /\ RootOnly

NextRoot == RootPatch \/ RootSign \/ RootFlash

(* --------------------------- specification ---------------------------- *)
\* the workspace binary (crates/rua_cli with crates/rua_core)
InitCore ==
  /\ build = "workspace"
  /\ InitCli
  /\ InitWork
  /\ InitHist
  /\ InitFlash
  /\ InitAvb
  /\ InitPure
  /\ InitPatch
  /\ InitRoot
  /\ InitKernel

NextCore ==
  \/ SigintHandler
  \/ \E input \in Commands : ReadLine(input)
  \/ ReadLineBreak
  \/ OperationReturn
  \/ WorkerList
  \/ LoopHead
  \/ EvStarted
  \/ EvWarning
  \/ EvInProgress
  \/ EvCompleted
  \/ EvIoError

Spec == InitCore /\ [][NextCore]_vars

\* either binary: the workspace one or the legacy one (src/main.rs)
Init ==
  /\ build \in {"workspace", "legacy"}
  /\ InitCli
  /\ InitWork
  /\ InitHist
  /\ InitFlash
  /\ InitAvb
  /\ InitPure
  /\ InitPatch
  /\ InitRoot
  /\ InitKernel

NextLegacy ==
  \/ LegacySpawn
  \/ \E i \in 1..Len(summary) : LTaskStart(i)
  \/ \E i \in 1..Len(summary) : LTaskComplete(i)
  \/ \E i \in 1..Len(summary) : LTaskFail(i)
  \/ \E i \in 1..Len(summary) : LJoin(i)
  \/ LCancel
  \/ LReturn

Next == NextCore \/ NextLegacy

SpecPayload == Init /\ [][Next]_vars

(* ======================= claims: payload unpack ======================= *)
Started(name) == {k \in 1..Len(log) : log[k].ev = "on_start" /\ log[k].name = name}
Completed(name) == {k \in 1..Len(log) : log[k].ev = "on_complete" /\ log[k].name = name}

CoreRun == build = "workspace" /\ mode \in {"all", "single"}

BeingExtracted ==
  IF mode = "legacy"
    THEN {i \in 1..Len(tasks) : tasks[i].st = "running"}
    ELSE IF wpc = "extract" THEN {idx} ELSE {}

CancelIsCancelledKind ==
  (CoreRun /\ wpc = "done" /\ seenPart # 0 /\ result.tag = "Err"
     /\ result.msg \in {"operation cancelled by user", "extraction cancelled"})
    => result.variant = "Cancelled"

(* ========================== claims: SIGINT ============================ *)
\* C5 as stated: the second SIGINT the process receives terminates it with
\* exit code 130.
SecondSigintExits == sigints >= 2 => exitCode = 130

\* C5 amended: a SIGINT that finds the flag clear only sets it and the
\* process keeps running; a SIGINT that finds the flag still set (no command
\* line was read since the previous one) terminates the process with 130.
SigintWhileSetExits ==
  /\ [](exitCode = 130 => (sigints >= 2 /\ lastSig = "set"))
  /\ [][sigints' = sigints + 1 =>
          IF INTERRUPTED
            THEN exitCode' = 130 /\ mainPc' = "exited"
            ELSE INTERRUPTED' /\ exitCode' = exitCode /\ mainPc' = mainPc]_vars

SigintWhileSetWitness == exitCode = 130 /\ sigints = 2 /\ lastSig = "set"

(* ------------------------- flash_partition claims --------------------- *)
SpecFlash == InitCore /\ [][NextFlash]_vars

\* C6: after flash_partition returns, on every path, the scratch file
\* <partition>_temp_boot.img does not exist.
ScratchAlwaysDeleted == fpc = "returned" => scratch[fpart] = "absent"

\* C7: a flash_partition call invokes fastboot at most once; a non-zero exit
\* becomes an error result without another invocation.
FastbootAtMostOnce ==
  /\ Len(fbLog) - callStart <= 1
  /\ (fpc = "returned" /\ fexit = "nonzero") =>
       /\ fresult = FlashErr("FastbootError", "Failed to flash partition")
       /\ Len(fbLog) - callStart = 1
  /\ (fpc = "returned" /\ fexit \in {"simulated", "launch_failed", "none"}) =>
       Len(fbLog) = callStart

FastbootAtMostOnceWitness ==
  /\ fpc = "returned"
  /\ fexit = "nonzero"
  /\ fresult.tag = "Err"
  /\ Len(fbLog) - callStart = 1

(* --------------------------- signing claims --------------------------- *)
SpecAvb == InitCore /\ [][NextAvb]_vars

\* reading the written file back
RECURSIVE ByteAt(_, _)
ByteAt(b, off) ==
  IF b = <<>> THEN -1
  ELSE IF off < Head(b).len
    THEN CASE Head(b).kind = "raw" -> Head(b).bytes[off + 1]
           [] Head(b).kind = "zeros" -> 0
           [] OTHER -> -1
  ELSE ByteAt(Tail(b), off - Head(b).len)

Bytes(b, off, n) == [i \in 1..n |-> ByteAt(b, off + i - 1)]

RECURSIVE FromBe(_)
FromBe(bs) ==
  IF bs = <<>> THEN 0 ELSE FromBe(SubSeq(bs, 1, Len(bs) - 1)) * 256 + bs[Len(bs)]

Signed == apc = "done" /\ aRes.tag = "Ok"

\* C8 (as stated): every image the signing workflow signs is written with
\* exactly partition_size bytes, partition_size being a multiple of 1 MiB
\* and at least original_size + 2 MiB.
SizeEnvelope ==
  (Signed /\ aIn.via = "workflow") =>
    /\ BlobLen(signedFile.data) = aIn.ps
    /\ aIn.ps % MiB = 0
    /\ aIn.ps >= aIn.img.size + 2 * MiB

\* C9: after a successful add_hash_footer the output is
\* image || vbmeta || footer: the last 64 bytes begin with "AVBf", the bytes
\* at original_size begin with "AVB0", the footer's original_image_size and
\* vbmeta_offset fields equal original_size and its vbmeta_size field is the
\* combined length of the header, authentication and auxiliary blocks.
FooterWellFormed ==
  Signed =>
    LET out == signedFile.data
        n == BlobLen(out)
        orig == aIn.img.size
        foot == n - FOOTER_SIZE
        auth_size == FromBe(Bytes(out, orig + 12, 8))
        aux_size == FromBe(Bytes(out, orig + 20, 8))
        blocks == VBMETA_HEADER_SIZE + auth_size + aux_size
    IN  /\ signedFile.exists
        /\ orig > 0 => out[1] = Run(orig, "image")
        /\ Bytes(out, foot, 4) = AVB_FOOTER_MAGIC
        /\ Bytes(out, orig, 4) = AVB_MAGIC
        /\ FromBe(Bytes(out, foot + 12, 8)) = orig
        /\ FromBe(Bytes(out, foot + 20, 8)) = orig
        /\ FromBe(Bytes(out, foot + 28, 8)) = blocks
        /\ n = orig + blocks + FOOTER_SIZE

FooterWellFormedWitness ==
  /\ Signed
  /\ aIn.img.size = 102400
  /\ aIn.via = "direct"
  /\ FromBe(Bytes(signedFile.data, BlobLen(signedFile.data) - 36, 8)) = 1280

\* the checks add_hash_footer makes before it opens the output file
ChecksPassed ==
  /\ aIn.img.readable
  /\ aIn.img.size <= aIn.ps
  /\ aIn.key.pem \in {"pkcs1", "pkcs8"}
  /\ aIn.key.bits = 8 * SigLen(aIn.algorithm)
  /\ aIn.img.size + aVb + 64 <= aIn.ps

\* C10: add_hash_footer returns an error and creates no output file
\* whenever original_size + vbmeta_size + 64 > partition_size; the output
\* file is created only after the size check and every earlier check passed.
NoFileUnlessItFits ==
  /\ [](apc = "done" =>
         /\ (aVb >= 0 /\ aIn.img.size + aVb + 64 > aIn.ps) =>
               (aRes.tag = "Err" /\ ~aCreated)
         /\ aCreated => ChecksPassed)
  /\ [][(apc' = "done" /\ ~aCreated') => signedFile' = signedFile]_vars

NoFileUnlessItFitsWitness ==
  /\ apc = "done"
  /\ aVb >= 0
  /\ aIn.ps = aIn.img.size + aVb + 63
  /\ aRes.tag = "Err"
  /\ ~aCreated
  /\ ~signedFile.exists

(* ------------------------ library function claims --------------------- *)
NextPure ==
  \/ BuildKeyBlob
  \/ CpioRoundTrip
  \/ CodecRoundTrip
  \/ ExtractKmi
  \/ SepolicyParse

SpecPure == InitCore /\ [][NextPure]_vars

\* the least-significant word of the modulus
LowWord(n) == from_be_bytes(SubSeq(n, Len(n) - 3, Len(n)))

\* C11: the n0inv field of the public-key blob satisfies
\* n0 * n0inv = -1 (mod 2^32), n0 being the low word of the modulus.
N0invIsNegatedInverse ==
  pfn = "build_public_key_blob" =>
    (LowWord(parg) * pret.n0inv) % modulus = modulus - 1

N0invWitness ==
  /\ pfn = "build_public_key_blob"
  /\ LowWord(parg) > 1
  /\ pret.n0inv > 1
  /\ pret.n0inv # LowWord(parg)

\* C12 (as stated): for every entry list, the empty one included, with
\* pairwise distinct names and no TRAILER!!! entry, loading what the
\* emitter wrote succeeds and returns the same entries in the same order.
CpioRoundTripAll ==
  pfn = "cpio_round_trip" => (pret.tag = "Ok" /\ pret.entries = parg)

\* the round trip of the lists that have an entry
CpioRoundTripNonEmpty ==
  (pfn = "cpio_round_trip" /\ parg # <<>>) =>
    (pret.tag = "Ok" /\ pret.entries = parg)

\* a byte string that detect_ramdisk_format takes for an encoded stream
LooksEncoded(x) == detect_ramdisk_format(x) # "Uncompressed"

RoundTrips == pret.detected = parg.fmt /\ pret.back = [tag |-> "Ok", data |-> parg.x]

\* C15 (as stated): for every format f, Uncompressed included, and every
\* byte string x, detect(compress(f, x)) = f and decompress(compress(f, x)) = x.
CodecRoundTripAll == pfn = "codec_round_trip" => RoundTrips

\* C15: the round trip holds for the five encoding formats, and for
\* Uncompressed when x does not begin with the magic of one of them.
CodecRoundTripEncoded ==
  (pfn = "codec_round_trip"
     /\ (parg.fmt # "Uncompressed" \/ ~LooksEncoded(parg.x))) => RoundTrips

CodecRoundTripWitness ==
  /\ pfn = "codec_round_trip"
  /\ parg.fmt = "Lz4Legacy"
  /\ Len(parg.x) = 20
  /\ RoundTrips

\* a name <kmi>_kernelsu.ko whose <kmi> starts with "android" and has only
\* ASCII letters, digits, '-' and '.'
KmiOf(name) == SubSeq(name, 1, Len(name) - Len(KO_SUFFIX))
IsKmiName(name) ==
  /\ Len(name) >= Len(KO_SUFFIX) + Len(ANDROID)
  /\ Drop(name, Len(name) - Len(KO_SUFFIX)) = KO_SUFFIX
  /\ SubSeq(name, 1, Len(ANDROID)) = ANDROID
  /\ \A i \in 1..Len(KmiOf(name)) :
       KmiOf(name)[i] \in Letters \cup Digits \cup {"-", "."}
HasAndroid(name) ==
  \E i \in 1..Len(name) :
    i + Len(ANDROID) - 1 <= Len(name)
      /\ SubSeq(name, i, i + Len(ANDROID) - 1) = ANDROID

\* C19: extract_kernelsu_kmi returns <kmi> for a name <kmi>_kernelsu.ko
\* with a well-formed <kmi>, and None for a name that does not end in
\* _kernelsu.ko or holds no "android".
KmiExtracted ==
  pfn = "extract_kernelsu_kmi" =>
    /\ IsKmiName(parg) => pret = [tag |-> "Some", value |-> KmiOf(parg)]
    /\ (~ends_with(parg, KO_SUFFIX) \/ ~HasAndroid(parg)) => pret.tag = "None"

KmiExtractedWitness ==
  /\ pfn = "extract_kernelsu_kmi"
  /\ IsKmiName(parg)
  /\ \E i \in 1..Len(parg) : parg[i] = "."
  /\ pret = [tag |-> "Some", value |-> KmiOf(parg)]

\* the little-endian bytes of the policydb magic
MagicBytes == <<143, 255, 124, 249>>
ParsesOk(data) == Len(data) >= 8 /\ SubSeq(data, 1, 4) = MagicBytes

\* C20: Sepolicy::parse succeeds exactly on data of at least 8 bytes that
\* begin with the magic; it then stores the data unchanged and the
\* little-endian i32 at bytes 4..8 as version; otherwise it returns an error.
SepolicyParseExact ==
  pfn = "Sepolicy::parse" =>
    /\ pret.tag = "Ok" <=> ParsesOk(parg)
    /\ pret.tag # "Ok" => pret.tag = "Err"
    /\ pret.tag = "Ok" =>
         /\ pret.data = parg
         /\ pret.version \in (-2147483647 - 1)..2147483647
         /\ \A i \in 1..4 :
              (pret.version \div (256 ^ (i - 1))) % 256 = parg[4 + i]

SepolicyParseWitness ==
  /\ pfn = "Sepolicy::parse"
  /\ pret.tag = "Ok"
  /\ pret.version < 0
  /\ Len(parg) > 8

(* ======================= claims: ramdisk patching ====================== *)
SpecPatch == InitCore /\ [][NextPatch]_vars

\* the CPIO archive inside the ramdisk block of a written image
ArchiveOf(img) == decompress_ramdisk(img.ramdisk.data).data
EmittedArchive == ArchiveOf(bWrote.image)

\* the names of the records of an archive, in order, the sentinel included
RECURSIVE RecordNames(_, _)
RecordNames(data, off) ==
  LET r == ReadRecord(data, off)
  IN  IF ~r.ok THEN <<>>
      ELSE IF r.next >= Len(data) THEN <<r.name>>
      ELSE <<r.name>> \o RecordNames(data, r.next)

Distinct(names) ==
  \A i, j \in 1..Len(names) : i # j => names[i] # names[j]

\* C13 (as stated): every archive a patch operation emits has pairwise
\* distinct entry names and the TRAILER!!! sentinel as its last record.
EmittedNamesDistinct ==
  bWrote.exists =>
    \E names \in {RecordNames(EmittedArchive, 0)} :
      /\ names # <<>>
      /\ names[Len(names)] = TRAILER
      /\ Distinct(names)

\* C14 (as stated): the ramdisk written into the output image has the
\* format that was detected on the input image's ramdisk.
CodecPreserved ==
  (bWrote.exists /\ bImage.ramdisk.present) =>
    detect_ramdisk_format(bWrote.image.ramdisk.data)
      = detect_ramdisk_format(bImage.ramdisk.data)

EmittedEntries == cpio_load_with_threecpio(EmittedArchive).entries
Named(entries, name) == {i \in 1..Len(entries) : entries[i].name = name}
OneEntry(entries, name, perm) ==
  /\ Cardinality(Named(entries, name)) = 1
  /\ \A i \in Named(entries, name) : entries[i].mode = perm
AssetEntry(entries, name, asset) ==
  IF asset # <<>> THEN OneEntry(entries, name, 420)
  ELSE Named(entries, name) = {}

\* C16: the Magisk transformation, also of an already Magisk-patched image,
\* yields exactly one init (0o750, the magiskinit asset), exactly one
\* .backup/.magisk (0o000, the config ending in the SHA1 of the input
\* image), and one 0o644 entry for each supplied asset of magisk.xz,
\* stub.xz, init-ld.xz and none for an asset not supplied.
MagiskEntriesExact ==
  (bOp.kind = "magisk" /\ bWrote.exists) =>
    \E entries \in {EmittedEntries} :
      /\ OneEntry(entries, NameInit, 488)
      /\ \A i \in Named(entries, NameInit) : entries[i].data = bOp.magiskinit
      /\ OneEntry(entries, NAME_BACKUP_MAGISK, 0)
      /\ \A i \in Named(entries, NAME_BACKUP_MAGISK) :
           entries[i].data = MAGISK_CONFIG \o Sha1Hex(bImage) \o <<10>>
      /\ AssetEntry(entries, NAME_MAGISK_XZ, bOp.magiskbin)
      /\ AssetEntry(entries, NAME_STUB_XZ, bOp.stub)
      /\ AssetEntry(entries, NAME_INIT_LD_XZ, bOp.init_ld)

\* a second Magisk patch, with fewer assets than the image already holds
MagiskEntriesWitness ==
  /\ bpc = "repatched"
  /\ bOp.kind = "magisk"
  /\ bWrote.exists
  /\ bOp.stub = <<>>
  /\ bOp.magiskbin # <<>>
  /\ Named(cpio_load_with_threecpio(ArchiveOf(bImage)).entries, NAME_STUB_XZ) # {}
  /\ Named(EmittedEntries, NAME_STUB_XZ) = {}

\* the input ramdisk holds .backup/.magisk
InputHasMagisk ==
  /\ bImage.ramdisk.present
  /\ decompress_ramdisk(bImage.ramdisk.data).tag = "Ok"
  /\ \E l \in {cpio_load_with_threecpio(ArchiveOf(bImage))} :
       l.tag = "Ok" /\ Named(l.entries, NAME_BACKUP_MAGISK) # {}

\* C17: on an input ramdisk that holds .backup/.magisk, KernelSU-LKM
\* without force returns an error, writes no patched image and does not
\* invoke fastboot; with force it patches the image.
KsuRefusesMagisk ==
  (bOp.kind = "ksu" /\ InputHasMagisk) =>
    IF bOp.force
      THEN /\ bWrote.exists
           /\ bFastboot = 1
           /\ Named(EmittedEntries, NAME_KERNELSU_KO) # {}
           /\ \A i \in Named(EmittedEntries, NameInit) :
                EmittedEntries[i].data = bOp.ksuinit
      ELSE /\ bRes.tag = "Err"
           /\ ~bWrote.exists
           /\ ~bFile
           /\ bFastboot = 0

KsuRefusesMagiskWitness ==
  /\ bpc = "repatched"
  /\ bOp.kind = "ksu"
  /\ InputHasMagisk
  /\ ~bOp.force
  /\ bRes.tag = "Err"

\* what the Magisk transformation loads from the input image
MagiskLoaded ==
  IF MagiskRamdiskData(bImage) = <<>> THEN [tag |-> "Ok", entries |-> <<>>]
  ELSE cpio_load_with_threecpio(MagiskRamdiskData(bImage))
MagiskInputEntries == MagiskLoaded.entries

\* C21 (as stated): in the Magisk transformation, an input sepolicy entry
\* with mode m and data d gives exactly one sepolicy entry in the result,
\* with mode m and data d followed by the Magisk rule bytes; without an
\* input sepolicy entry none is added and the transformation succeeds.
SepolicyReplaced ==
  (bOp.kind = "magisk" /\ bOp.magiskinit # <<>> /\ MagiskLoaded.tag = "Ok") =>
    \E given \in {MagiskInputEntries} :
      /\ bRes.tag = "Ok"
      /\ bWrote.exists
      /\ IF Named(given, NAME_SEPOLICY) = {}
           THEN Named(EmittedEntries, NAME_SEPOLICY) = {}
           ELSE /\ Cardinality(Named(EmittedEntries, NAME_SEPOLICY)) = 1
                /\ \A i \in Named(EmittedEntries, NAME_SEPOLICY) :
                     \E j \in Named(given, NAME_SEPOLICY) :
                       /\ EmittedEntries[i].mode = given[j].mode
                       /\ EmittedEntries[i].data = given[j].data \o MAGISK_RULES

\* the archive the KernelSU-LKM transformation reads from the input image
KsuInput == KsuLoad(ArchiveOf(bImage))

\* C22 (as stated): the KernelSU-LKM transformation of any input ramdisk,
\* also one KernelSU already patched, yields exactly one init (the ksuinit
\* binary, 0o755), exactly one kernelsu.ko (0o755) and, when the input had
\* an init entry, exactly one init.real with that entry's mode and data.
KsuEntriesExact ==
  (bOp.kind = "ksu" /\ bWrote.exists) =>
    \E entries \in {EmittedEntries}, loaded \in {KsuInput} :
      /\ OneEntry(entries, NameInit, 493)
      /\ \A i \in Named(entries, NameInit) : entries[i].data = bOp.ksuinit
      /\ OneEntry(entries, NAME_KERNELSU_KO, 493)
      /\ loaded.old_init.some =>
           /\ OneEntry(entries, NAME_INIT_REAL, loaded.old_init.mode)
           /\ \A i \in Named(entries, NAME_INIT_REAL) :
                entries[i].data = loaded.old_init.data

\* the entries of `whole` hold those of `part`, in the same order
RECURSIVE IsSubsequence(_, _)
IsSubsequence(part, whole) ==
  IF part = <<>> THEN TRUE
  ELSE IF whole = <<>> THEN FALSE
  ELSE IF part[1] = whole[1] THEN IsSubsequence(Tail(part), Tail(whole))
  ELSE IsSubsequence(part, Tail(whole))

\* an entry named init, or with a name under overlay.d/ or .backup/
UnderStripped(e) ==
  \/ e.name = NameInit
  \/ StartsWith(e.name, PREFIX_OVERLAY \o <<47>>)
  \/ StartsWith(e.name, PREFIX_BACKUP \o <<47>>)

\* C23 (as stated): the Magisk transformation removes only init and the
\* entries under overlay.d/ or .backup/; every other input entry is in the
\* result with its name, mode and data, in the same relative order.
MagiskKeepsOthers ==
  (bOp.kind = "magisk" /\ bWrote.exists) =>
    IsSubsequence(SelectSeq(MagiskInputEntries, LAMBDA e : ~UnderStripped(e)),
                  EmittedEntries)

(* ======================== claims: root workflows ======================= *)
SpecRoot == InitCore /\ [][NextRoot]_vars

\* C18 (as stated): when a root workflow has flashed successfully its
\* patched image is no longer on disk, and when the user declined to flash
\* it still is.
PatchedImageRemoved ==
  /\ rlast.outcome = "flashed" => Patched(rlast.flow) \notin rdisk
  /\ rlast.outcome = "declined" => Patched(rlast.flow) \in rdisk

(* =================== claims: warnings, prompts, the flag ================ *)
\* a step in which the extractor raises a warning for the operation due next
WarningStep == wpc = "extract" /\ ~warned /\ warned'

\* C26: a warning raised for operation i of partition p is forwarded as
\* on_warning(p, i, ..) and does not abort the extraction: the callback
\* tells the extractor to go on to the same next operation unless
\* should_cancel() is true, and only then the extraction is aborted.
WarningForwarded ==
  [][WarningStep =>
       /\ log' = Append(log, Call("on_warning", Cur.name, opsDone, 0))
       /\ IF should_cancel
            THEN wpc' = "done" /\ result' = AnyhowErr("extraction cancelled")
            ELSE /\ wpc' = "extract"
                 /\ epc' = "ops"
                 /\ opsDone' = opsDone
                 /\ result' = result]_vars

\* a warning was forwarded and the next operation's progress followed it
WarningForwardedWitness ==
  /\ wpc = "extract"
  /\ \E i \in 1..(Len(log) - 1) :
       /\ log[i].ev = "on_warning"
       /\ log[i].name = Cur.name
       /\ log[i + 1].ev = "on_progress"

\* a step of the unpack workflow that finds the work directory on disk
UnpackStep == mainPc = "readline" /\ outDir /\ cmds' # cmds /\ answered' # "none"
\* the step removed the directory (and, unless it could not be made again,
\* started the extraction)
RemovesWorkDir == ~outDir' \/ (mainPc' = "running" /\ mode' = "all")

\* C27 (as stated): the unpack workflow removes an existing work directory
\* only after the user confirms; when the user declines the directory is
\* left untouched and no extraction is started.
RemovedOnlyWhenConfirmed ==
  [][UnpackStep =>
       /\ RemovesWorkDir => answered' \in {"y", ""}
       /\ answered' = "n" => UNCHANGED <<outDir, files, mainPc, wpc>>]_vars

\* C28: the flag is cleared whenever a command line is read, so every
\* operation starts with the flag false; the flag becomes true only by a
\* SIGINT, and an operation is cancelled only while the flag is true: a
\* SIGINT delivered before the command was read never cancels it.
FlagClearedAtCommand ==
  /\ [][cmds' # cmds => ~INTERRUPTED']_vars
  /\ [][(mainPc = "readline" /\ mainPc' = "running") => ~INTERRUPTED']_vars
  /\ [][(~INTERRUPTED /\ INTERRUPTED') => sigints' = sigints + 1]_vars
  /\ [][(result' # result /\ result'.tag = "Err"
           /\ result'.msg \in {"operation cancelled by user",
                               "extraction cancelled"}) => INTERRUPTED]_vars

\* a SIGINT set the flag, a command read since cleared it, and the
\* operation that command started is extracting
FlagClearedWitness ==
  /\ sigints = 1
  /\ lastSig = "clear"
  /\ ~INTERRUPTED
  /\ mainPc = "running"
  /\ wpc = "extract"
  /\ log # <<>>

(* =================== claims: APatch and AnyKernel3 ==================== *)
SpecKernel == InitCore /\ [][NextKernel]_vars

\* the kernel apatch_patch was given, once it has found one
InputKernel ==
  IF kOp.is_raw_kernel THEN kOp.file ELSE kOp.file.image.kernel.data
KernelGiven ==
  /\ kOp.kind = "apatch"
  /\ kOp.is_raw_kernel \/ (kOp.file.tag = "Ok" /\ kOp.file.image.kernel.present)
\* the kernel in the image apatch_patch wrote
EmittedKernel ==
  IF kOp.is_raw_kernel THEN kWrote.content ELSE kWrote.content.kernel.data

\* C24 (as stated): with kptools absent apatch_patch returns
\* ExecutableNotFound, and with kptools absent or exiting non-zero it
\* writes no apatch_patched image and never invokes fastboot.
ToolAbsentIsExecutableNotFound ==
  KernelGiven =>
    /\ ~kOp.tool.kptools =>
         kRes.tag = "Err" /\ kRes.variant = "ExecutableNotFound"
    /\ (~kOp.tool.kptools \/ kOp.tool.run = "exit 1") =>
         /\ kRes.tag = "Err"
         /\ ~kWrote.exists
         /\ APATCH_OUT \notin kDisk
         /\ kFastboot = 0

\* a well-formed gzip stream
IsGzip(data) == GzDecode(data).tag = "Ok"

\* C25 (as stated): the patched kernel is emitted gzip-compressed if and
\* only if the input kernel was gzip-compressed, in which case it was
\* decompressed before patching; a kernel that was not gzip-compressed is
\* emitted without gzip compression.
GzipIffInputGzip ==
  (KernelGiven /\ kWrote.exists) =>
    /\ IsGzip(EmittedKernel) <=> IsGzip(InputKernel)
    /\ IsGzip(InputKernel) =>
         EmittedKernel = GzEncode(KpPatched(GzDecode(InputKernel).data))

\* C29 (as stated): whenever anykernel3_root returns Ok(path), for either
\* value of auto_flash and of is_raw_kernel, the file at path is on disk
\* and holds the image the call produced.
Ak3PathOnDisk ==
  (kOp.kind = "ak3" /\ kRes.tag = "Ok") =>
    /\ kWrote.exists
    /\ kWrote.name = kRes.path
    /\ kRes.path \in kDisk
    /\ kWrote.content
         = IF kOp.is_raw_kernel THEN kOp.zip.found.value
           ELSE replace_kernel(kOp.file.image, kOp.zip.found.value)

\* C30 (as stated): on every return path run_kptools leaves neither
\* temp_kernel_<partition> nor temp_kernel_patched_<partition> on disk.
NoTempKernelLeft ==
  KernelGiven => (TEMP_KERNEL \notin kDisk /\ PATCHED_KERNEL \notin kDisk)

====
